---- MODULE Spec2Model ----
(***************************************************************************)
(* x-post-collector: chat collection -> spreadsheet upload -> AI analysis  *)
(* -> publishing -> archiving.                                             *)
(*                                                                         *)
(* The working tab ("Sheet1") and the archive tab ("Archives") are         *)
(* sequences of rows, a row is a sequence of cell strings, row 1 is the    *)
(* header.  Column indices are 0-based and -1 means "not found", as in the *)
(* Python source, so that the index arithmetic of the source is kept.      *)
(***************************************************************************)
EXTENDS Integers, Sequences, FiniteSets, TLC

VARIABLES
    sheet,          \* rows of the working tab Sheet1 (as values().get returns them)
    archive,        \* rows of the Archives tab
    archiveExists,  \* whether the spreadsheet has an Archives tab
    pc,             \* position of the running entry point ("idle" between runs)
    cfg,            \* the components the running workflow found configured
    csv,            \* rows of this cycle's CSV that the upload has yet to read
    results,        \* the results dictionary of the running cycle
    events,         \* phases executed so far in the running cycle, in order
    upl,            \* what the duplicate filter of this cycle's upload returned
    faults,         \* number of spreadsheet calls that failed in the running cycle
    pass,           \* the last analysis call made on its own, with what it returned
    rl,             \* the RateLimitManager of the analyzer and the clock it reads
    xp,             \* the PublishRateLimiter of the publisher and the clock it reads
    env,            \* the settings read from the environment by config.py
    handler,        \* the DiscordHandler of the running collect_to_csv
    runner          \* the process main() started: its mode, position and flag

vars == <<sheet, archive, archiveExists, pc, cfg, csv, results, events, upl,
          faults, pass, rl, xp, env, handler, runner>>

(***************************************************************************)
(* Bounds of the model.                                                    *)
(***************************************************************************)
MaxRows == 2        \* data rows the working tab may hold
MaxArchive == 2     \* data rows the archive tab may hold
MaxBatch == 2       \* posts one collection may return
MaxFaults == 1      \* spreadsheet calls that may fail in one run

(***************************************************************************)
(* Strings.  str.lower(), str.upper(), str.strip() and the substring tests *)
(* of the source, on the strings that occur in the model.                  *)
(***************************************************************************)
Lower(s) ==
    CASE s = "Date" -> "date"
      [] s = "Time" -> "time"
      [] s = "Content" -> "content"
      [] s = "Post Link" -> "post link"
      [] s = "Author" -> "author"
      [] s = "Author Link" -> "author link"
      [] s = "AI Summary" -> "ai summary"
      [] s = "AI Keywords" -> "ai keywords"
      [] s = "AI processed" -> "ai processed"
      [] s = "Daily Post Draft" -> "daily post draft"
      [] s = "Publication receipt" -> "publication receipt"
      [] s = "TRUE" -> "true"
      [] s = "Twitter" -> "twitter"
      [] s = "X" -> "x"
      [] OTHER -> s

Upper(s) ==
    CASE s = "true" -> "TRUE"
      [] s = "True" -> "TRUE"
      [] s = "yes" -> "YES"
      [] s = "Yes" -> "YES"
      [] s = "no" -> "NO"
      [] OTHER -> s

\* str.strip(): whitespace-only text becomes the empty string
Strip(s) ==
    CASE s = " " -> ""
      [] s = "  " -> ""
      [] s = "   " -> ""
      [] s = " yes " -> "yes"
      [] s = "  gm      " -> "gm"
      [] OTHER -> s

\* needle in haystack, for the needles the source searches headers for
Contains(haystack, needle) ==
    CASE needle = "time" ->
            haystack \in {"time", "Time (UTC)", "time (utc)"}
      [] needle = "publication receipt" ->
            haystack \in {"publication receipt"}
      [] needle = "Post Link" ->
            haystack \in {"Post Link"}
      [] needle = "Daily Post Draft" ->
            haystack \in {"Daily Post Draft"}
      [] needle = "AI Draft" ->
            haystack \in {"AI Draft"}
      [] OTHER -> haystack = needle

(***************************************************************************)
(* Sequences with the 0-based indices of the source.                       *)
(***************************************************************************)
Min(S) == CHOOSE x \in S : \A y \in S : x <= y
Max(S) == CHOOSE x \in S : \A y \in S : x >= y

\* row[i] guarded by len(row) > i, "" otherwise
Cell(row, i) == IF i >= 0 /\ Len(row) > i THEN row[i + 1] ELSE ""

\* the elements of a list
Elements(seq) == {seq[i] : i \in 1..Len(seq)}

\* first 0-based index whose element is one of `wanted`, -1 if none
IndexWhere(seq, wanted) ==
    LET S == {i \in 1..Len(seq) : seq[i] \in wanted}
    IN  IF S = {} THEN -1 ELSE Min(S) - 1

\* last 0-based index whose element is one of `wanted`, -1 if none
LastIndexWhere(seq, wanted) ==
    LET S == {i \in 1..Len(seq) : seq[i] \in wanted}
    IN  IF S = {} THEN -1 ELSE Max(S) - 1

\* list.index(x) guarded by "x in list", with a default
IndexOfOr(seq, x, default) ==
    LET i == IndexWhere(seq, {e \in Elements(seq) : e = x})
    IN  IF i = -1 THEN default ELSE i

\* while len(row) <= col: row.append('')
Pad(row, col) ==
    IF Len(row) > col THEN row
    ELSE row \o [k \in 1..(col + 1 - Len(row)) |-> ""]

\* row[col] = v on a row that is long enough
SetCell(row, col, v) == [row EXCEPT ![col + 1] = v]

\* list.insert(i, x)
Insert(seq, i, x) ==
    SubSeq(seq, 1, i) \o <<x>> \o SubSeq(seq, i + 1, Len(seq))

(***************************************************************************)
(* The spreadsheet service: values().get drops trailing empty cells of a   *)
(* row and trailing empty rows, so stored ranges are kept in that form.    *)
(***************************************************************************)
TrimRow(row) ==
    LET S == {i \in 1..Len(row) : row[i] # ""}
    IN  IF S = {} THEN <<>> ELSE SubSeq(row, 1, Max(S))

TrimRows(rows) ==
    LET t == [i \in 1..Len(rows) |-> TrimRow(rows[i])]
        S == {i \in 1..Len(t) : t[i] # <<>>}
    IN  IF S = {} THEN <<>> ELSE SubSeq(t, 1, Max(S))

\* a written row laid over the row that is there: the cells the body gives
\* are overwritten, cells to their right are kept
Overlay(old, new) ==
    [j \in 1..(IF Len(old) > Len(new) THEN Len(old) ELSE Len(new)) |->
        IF j <= Len(new) THEN new[j] ELSE old[j]]

\* values().update(range="<tab>!A<first>", body=rows): rows are written from
\* row `first` (1-based) on, over whatever is there
UpdateAt(tab, first, rows) ==
    LET last == IF Len(tab) > first - 1 + Len(rows)
                THEN Len(tab) ELSE first - 1 + Len(rows)
    IN  TrimRows([i \in 1..last |->
            IF i >= first /\ i < first + Len(rows)
            THEN Overlay(IF i <= Len(tab) THEN tab[i] ELSE <<>>, rows[i - first + 1])
            ELSE IF i <= Len(tab) THEN tab[i] ELSE <<>>])

\* values().append(range="<tab>!A:Z", insertDataOption=INSERT_ROWS)
AppendRows(tab, rows) == TrimRows(tab \o rows)

(***************************************************************************)
(* ArchiveHandler (modules/archive_handler.py).  `fail` names the one      *)
(* spreadsheet call of the invocation that raises, "none" if none does.    *)
(***************************************************************************)
time_header == "Time (UTC)"

expected_headers ==
    <<"Date", time_header, "Author", "Post Link", "Content", "AI Summary",
      "Date Processed (UTC)", "Publication Receipt">>

\* datetime.now(timezone.utc).isoformat()
NowUTC == "2024-01-03T20:00:00+00:00"

ArchiveCalls ==
    {"ens_get", "ens_add", "ens_hget", "ens_hupd", "gp_get", "ap_get",
     "ap_update", "car_get", "car_clear", "car_update", "cpc_get",
     "cpc_clear", "cpc_update"}

ensure_archive_sheet_exists(arch, exists, fail) ==
    IF fail = "ens_get" \/ (~exists /\ fail = "ens_add")
    THEN [ok |-> FALSE, archive |-> arch, exists |-> exists]
    ELSE LET existing_headers ==
                 IF arch # <<>> /\ arch[1] # <<>>
                 THEN SubSeq(arch[1], 1, IF Len(arch[1]) < 8 THEN Len(arch[1]) ELSE 8)
                 ELSE <<>>
             \* a failing header read or header update lands in the inner
             \* except branch, which writes the headers
             rewrite == fail \in {"ens_hget", "ens_hupd"}
                        \/ existing_headers # expected_headers
         IN  [ok |-> TRUE,
              archive |-> IF rewrite THEN UpdateAt(arch, 1, <<expected_headers>>)
                          ELSE arch,
              exists |-> TRUE]

get_processed_posts(sh, fail) ==
    IF fail = "gp_get" \/ Len(sh) <= 1 THEN <<>>
    ELSE LET headers == sh[1]
             ai_processed_idx ==
                 IndexWhere(headers, {h \in Elements(headers) : Lower(h) = "ai processed"})
             taken == {i \in 2..Len(sh) :
                         LET row == Pad(sh[i], ai_processed_idx)
                         IN  /\ Cell(row, ai_processed_idx) # ""
                             /\ Upper(Cell(row, ai_processed_idx)) = "TRUE"}
             all == [i \in 1..Len(sh) |->
                        [row_index |-> i,
                         data |-> Pad(sh[i], ai_processed_idx),
                         headers |-> headers]]
         IN  IF ai_processed_idx = -1 THEN <<>>
             ELSE SelectSeq(all, LAMBDA p : p.row_index \in taken)

\* the publication receipt of the batch: the first non-blank receipt cell
FindReceipt(posts) ==
    LET receipt_of(post) ==
            LET idx == IndexWhere(post.headers,
                         {h \in Elements(post.headers) :
                             Contains(Lower(h), "publication receipt")})
            IN  IF idx >= 0 /\ Len(post.data) > idx
                THEN Strip(post.data[idx + 1]) ELSE ""
        first == IndexWhere(posts, {p \in Elements(posts) : receipt_of(p) # ""})
    IN  IF first = -1 THEN "" ELSE receipt_of(posts[first + 1])

ArchiveRow(post, publication_receipt) ==
    LET headers == post.headers
        row == post.data
        headers_lower == [i \in 1..Len(headers) |-> Lower(headers[i])]
        date_idx == IndexOfOr(headers_lower, "date", -1)
        time_idx == IndexWhere(headers_lower, {h \in Elements(headers_lower) : Contains(h, "time")})
        author_idx == IndexOfOr(headers_lower, "author", -1)
        post_link_idx == IndexOfOr(headers_lower, "post link", -1)
        content_idx == IndexOfOr(headers_lower, "content", -1)
        ai_summary_idx == IndexWhere(headers, {h \in Elements(headers) : Lower(h) = "ai summary"})
    IN  <<Cell(row, date_idx), Cell(row, time_idx), Cell(row, author_idx),
          Cell(row, post_link_idx), Cell(row, content_idx),
          Cell(row, ai_summary_idx), NowUTC, publication_receipt>>

\* len(values().get(range="Archives!A:A")): the rows up to the last one with
\* a non-empty cell in column A
ColumnARows(tab) ==
    LET S == {i \in 1..Len(tab) : Cell(tab[i], 0) # ""}
    IN  IF S = {} THEN 0 ELSE Max(S)

\* a first free row computed one too low: the last archive row is written over
NextRowOnLast(existing_rows) == existing_rows

NextRow(existing_rows) == existing_rows + 1

archive_posts(posts, arch, fail) ==
    IF posts = <<>> THEN [raised |-> FALSE, count |-> 0, archive |-> arch]
    ELSE LET publication_receipt == FindReceipt(posts)
             archived_rows ==
                 [i \in 1..Len(posts) |-> ArchiveRow(posts[i], publication_receipt)]
             next_row == NextRow(ColumnARows(arch))
         IN  IF fail \in {"ap_get", "ap_update"}
             THEN [raised |-> TRUE, count |-> 0, archive |-> arch]
             ELSE [raised |-> FALSE, count |-> Len(archived_rows),
                   archive |-> UpdateAt(arch, next_row, archived_rows)]

\* a clear_archived_rows that keeps the archived rows as well
KeptRowsAll(source_data, row_indices) ==
    <<source_data[1]>> \o
    [i \in 1..(Len(source_data) - 1) |->
        [idx |-> i + 1, row |-> source_data[i + 1]]]

\* the rows clear_archived_rows keeps: the header and the rows not archived
KeptRows(source_data, row_indices) ==
    <<source_data[1]>> \o
    SelectSeq([i \in 1..(Len(source_data) - 1) |->
                  [idx |-> i + 1, row |-> source_data[i + 1]]],
              LAMBDA e : e.idx \notin row_indices)

clear_archived_rows(row_indices, sh, fail) ==
    IF fail \in {"car_get", "car_clear"} \/ sh = <<>>
    THEN [ok |-> FALSE, sheet |-> sh]
    ELSE LET kept == KeptRows(sh, row_indices)
             new_data == [i \in 1..Len(kept) |->
                             IF i = 1 THEN kept[1] ELSE kept[i].row]
         IN  IF fail = "car_update"
             THEN [ok |-> FALSE, sheet |-> <<>>]
             ELSE [ok |-> TRUE, sheet |-> UpdateAt(<<>>, 1, new_data)]

columns_to_clear ==
    <<"AI Summary", "AI processed", "Daily Post Draft", "Publication receipt">>

clear_processing_columns(sh, fail) ==
    IF fail = "cpc_get" THEN [ok |-> FALSE, sheet |-> sh]
    ELSE IF Len(sh) <= 1 THEN [ok |-> TRUE, sheet |-> sh]
    ELSE LET headers == sh[1]
             clear_indices ==
                 {IndexOfOr(headers, columns_to_clear[k], -1) :
                     k \in 1..Len(columns_to_clear)} \ {-1}
             data == [i \in 1..Len(sh) |->
                         IF i = 1 THEN sh[1]
                         ELSE [j \in 1..Len(sh[i]) |->
                                  IF (j - 1) \in clear_indices THEN ""
                                  ELSE sh[i][j]]]
         IN  IF clear_indices = {} THEN [ok |-> TRUE, sheet |-> sh]
             ELSE IF fail = "cpc_clear" THEN [ok |-> FALSE, sheet |-> sh]
             ELSE IF fail = "cpc_update" THEN [ok |-> FALSE, sheet |-> <<>>]
             ELSE [ok |-> TRUE, sheet |-> UpdateAt(<<>>, 1, data)]

\* the sheet rows of the processed posts
RowIndices(posts) == {posts[i].row_index : i \in 1..Len(posts)}

\* steps 4 and 5 of run_archive_workflow and its result
ClearAfterArchive(ens, ap, car, cpc) ==
    [sheet |-> cpc.sheet, archive |-> ap.archive, exists |-> ens.exists,
     success |-> car.ok /\ cpc.ok, posts_archived |-> ap.count,
     errors |-> (IF car.ok THEN <<>> ELSE <<"Failed to remove archived rows">>)
                \o (IF cpc.ok THEN <<>>
                    ELSE <<"Failed to clear processing columns">>)]

\* step 3 of run_archive_workflow on, given what archive_posts did
AfterArchivePosts(sh, ens, ap, car, fail) ==
    IF ap.raised
    THEN [sheet |-> sh, archive |-> ap.archive, exists |-> ens.exists,
          success |-> FALSE, posts_archived |-> 0,
          errors |-> <<"spreadsheet call failed">>]
    ELSE IF ~(ap.count > 0)
    THEN [sheet |-> sh, archive |-> ap.archive, exists |-> ens.exists,
          success |-> TRUE, posts_archived |-> ap.count, errors |-> <<>>]
    ELSE ClearAfterArchive(ens, ap, car, clear_processing_columns(car.sheet, fail))

\* steps 1 and 2 of run_archive_workflow, given what they returned
AfterEnsure(sh, ens, processed_posts, fail) ==
    IF ~ens.ok
    THEN [sheet |-> sh, archive |-> ens.archive, exists |-> ens.exists,
          success |-> FALSE, posts_archived |-> 0,
          errors |-> <<"Failed to ensure Archives sheet exists">>]
    ELSE IF processed_posts = <<>>
    THEN [sheet |-> sh, archive |-> ens.archive, exists |-> ens.exists,
          success |-> TRUE, posts_archived |-> 0, errors |-> <<>>]
    ELSE AfterArchivePosts(sh, ens,
             archive_posts(processed_posts, ens.archive, fail),
             clear_archived_rows(RowIndices(processed_posts), sh, fail), fail)

run_archive_workflow(sh, arch, exists, fail) ==
    AfterEnsure(sh, ensure_archive_sheet_exists(arch, exists, fail),
                get_processed_posts(sh, fail), fail)

(***************************************************************************)
(* GeminiAnalyzer (modules/gemini_analyzer.py).  A reply is what           *)
(* _make_request gives for one prompt: the response text, or the exception *)
(* it raises.  A script holds the replies to the three prompts of one row. *)
(***************************************************************************)
Ok(t) == [raised |-> FALSE, text |-> t]
Raised(m) == [raised |-> TRUE, text |-> m]

InfoReply == "USERNAME: @proj"

NoScript == [detect |-> Ok("NO"), extract |-> Ok(InfoReply), generate |-> Ok("No info yet")]

\* the replies the service may give to the prompts about a post
AIReplies(content) ==
    CASE content = "Launch of protocol A" ->
            {[detect |-> Ok("YES"), extract |-> Ok(InfoReply),
              generate |-> Ok("Lending protocol")],
             [detect |-> Ok("YES"), extract |-> Ok(InfoReply),
              generate |-> Ok("  ")]}
      [] content = "Price talk about B" ->
            {NoScript,
             [detect |-> Raised("RATE_LIMITED"), extract |-> Ok(InfoReply),
              generate |-> Ok("No info yet")]}
      [] OTHER -> {NoScript}

Contents == {"Launch of protocol A", "Price talk about B"}

\* the replies of one analysis run, by post content
ScriptAssignments ==
    {f \in [Contents -> UNION {AIReplies(c) : c \in Contents}] :
        \A c \in Contents : f[c] \in AIReplies(c)}

ReplyFor(scripts, content) ==
    IF content \in DOMAIN scripts THEN scripts[content] ELSE NoScript

\* a detection that takes every response that starts with YES
is_new_project_lenient(content, reply) ==
    IF content = "" \/ Len(Strip(content)) < 10 THEN FALSE
    ELSE IF reply.raised THEN FALSE
    ELSE Upper(Strip(reply.text)) \in {"YES", "YES."}

is_new_project(content, reply) ==
    IF content = "" \/ Len(Strip(content)) < 10 THEN FALSE
    ELSE IF reply.raised THEN FALSE
    ELSE Upper(Strip(reply.text)) = "YES"

NoProjectInfo == [found |-> FALSE, username |-> "", twitter_link |-> "", bio |-> ""]

\* the USERNAME:/LINK:/DESCRIPTION: lines of a response, parsed
extract_project_info(content, reply) ==
    IF reply.raised THEN NoProjectInfo
    ELSE CASE reply.text = "USERNAME: @proj" ->
                [found |-> TRUE, username |-> "proj",
                 twitter_link |-> "https://x.com/proj",
                 bio |-> "No description provided"]
           [] OTHER ->
                [found |-> TRUE, username |-> "unknown", twitter_link |-> "",
                 bio |-> "No description provided"]

\* len(summary.split()) of the response texts of the model
WordCount(summary) ==
    CASE summary = "" -> 0
      [] summary = "Lending protocol" -> 2
      [] summary = "No info yet" -> 3
      [] OTHER -> 3

generate_summary(content, bio, reply) ==
    IF reply.raised THEN "Summary generation failed"
    ELSE LET summary == Strip(reply.text)
         IN  IF WordCount(summary) > 35 THEN summary \o "..." ELSE summary

NoSummary ==
    [found |-> FALSE, date |-> "", username |-> "", ai_summary |-> "", row_index |-> 0]

\* every exception of the three prompts is caught where the prompt is made,
\* so none reaches the handler of analyze_single_row
analyze_single_row(row_idx, post_data, script) ==
    IF post_data.content = ""
    THEN [raised |-> FALSE, project_summary |-> NoSummary,
          ai_summary |-> "Not new project related"]
    ELSE LET is_new == is_new_project(post_data.content, script.detect)
             project_info == extract_project_info(post_data.content, script.extract)
             ai_analysis == generate_summary(post_data.content, project_info.bio,
                                             script.generate)
         IN  IF is_new /\ project_info.found
             THEN [raised |-> FALSE,
                   project_summary |->
                       [found |-> TRUE, date |-> post_data.date,
                        username |-> project_info.username,
                        ai_summary |-> ai_analysis, row_index |-> row_idx],
                   ai_summary |-> ai_analysis]
             ELSE [raised |-> FALSE, project_summary |-> NoSummary,
                   ai_summary |-> "Not new project related"]

\* rank of a date string in sorted() order
DateRank(d) ==
    CASE d = "2024-01-01" -> 1
      [] d = "2024-01-02" -> 2
      [] OTHER -> 0

RECURSIVE JoinLines(_)
JoinLines(lines) ==
    IF lines = <<>> THEN ""
    ELSE IF Len(lines) = 1 THEN lines[1]
    ELSE lines[1] \o "\n" \o JoinLines(Tail(lines))

\* a draft that puts every project under the header of the first summary
DraftLinesOneGroup(dates, summaries) ==
    IF dates = {} THEN <<>>
    ELSE <<"New/Trending Projects on " \o summaries[1].date \o ":", "">>
         \o [i \in 1..Len(summaries) |->
                "@" \o summaries[i].username \o ": "
                    \o summaries[i].ai_summary \o "\n"]
         \o <<"">>

RECURSIVE DraftLines(_, _)
DraftLines(dates, summaries) ==
    IF dates = {} THEN <<>>
    ELSE LET date == CHOOSE d \in dates : \A e \in dates : DateRank(d) <= DateRank(e)
             projects == SelectSeq(summaries, LAMBDA x : x.date = date)
         IN  <<"New/Trending Projects on " \o date \o ":", "">>
             \o [i \in 1..Len(projects) |->
                    "@" \o projects[i].username \o ": "
                        \o projects[i].ai_summary \o "\n"]
             \o <<"">>
             \o DraftLines(dates \ {date}, summaries)

create_daily_draft(summaries) ==
    IF summaries = <<>> THEN "No new projects found today."
    ELSE JoinLines(DraftLines({summaries[i].date : i \in 1..Len(summaries)},
                              summaries))

(***************************************************************************)
(* SheetAnalyzer (modules/gemini_analyzer.py).                             *)
(***************************************************************************)
\* clear_sheet(preserve_headers=False) followed by append_data(all_rows);
\* a failing clear leaves the tab as it is, a failing append leaves it empty
ClearAndRewrite(sh, all_rows, clear_fails, append_fails) ==
    IF clear_fails THEN [raised |-> TRUE, sheet |-> sh]
    ELSE IF all_rows = <<>> THEN [raised |-> FALSE, sheet |-> <<>>]
    ELSE IF append_fails THEN [raised |-> TRUE, sheet |-> <<>>]
    ELSE [raised |-> FALSE, sheet |-> AppendRows(<<>>, all_rows)]

\* the four column indices found in the header row, -1 for a missing one
FindColumns(headers) ==
    [headers |-> headers,
     ai_summary_col |-> LastIndexWhere(headers, {h \in Elements(headers) : Lower(h) = "ai summary"}),
     ai_keywords_col |-> LastIndexWhere(headers, {h \in Elements(headers) : Lower(h) = "ai keywords"}),
     ai_processed_col |-> LastIndexWhere(headers, {h \in Elements(headers) : Lower(h) = "ai processed"}),
     daily_draft_col |-> LastIndexWhere(headers, {h \in Elements(headers) : Lower(h) = "daily post draft"}),
     needs_update |-> FALSE]

\* AI Summary is appended when missing
AddSummary(c) ==
    IF c.ai_summary_col = -1
    THEN [c EXCEPT !.headers = Append(c.headers, "AI Summary"),
                   !.ai_summary_col = Len(c.headers),
                   !.needs_update = TRUE]
    ELSE c

\* AI Keywords is inserted after AI Summary in keywords mode
AddKeywords(c, generation_mode) ==
    IF generation_mode = "keywords" /\ c.ai_keywords_col = -1
    THEN [c EXCEPT !.headers = Insert(c.headers, c.ai_summary_col + 1, "AI Keywords"),
                   !.ai_keywords_col = c.ai_summary_col + 1,
                   !.ai_processed_col =
                       IF @ >= c.ai_summary_col + 1 THEN @ + 1 ELSE @,
                   !.daily_draft_col =
                       IF @ >= c.ai_summary_col + 1 THEN @ + 1 ELSE @,
                   !.needs_update = TRUE]
    ELSE c

\* AI processed is inserted after AI Summary / AI Keywords when missing
AddProcessed(c) ==
    IF c.ai_processed_col = -1
    THEN [c EXCEPT !.headers =
                       Insert(c.headers,
                              Max({c.ai_summary_col, c.ai_keywords_col}) + 1,
                              "AI processed"),
                   !.ai_processed_col =
                       Max({c.ai_summary_col, c.ai_keywords_col}) + 1,
                   !.daily_draft_col =
                       IF @ >= Max({c.ai_summary_col, c.ai_keywords_col}) + 1
                       THEN @ + 1 ELSE @,
                   !.needs_update = TRUE]
    ELSE c

\* Daily Post Draft is appended when missing
AddDraft(c) ==
    IF c.daily_draft_col = -1
    THEN [c EXCEPT !.headers = Append(c.headers, "Daily Post Draft"),
                   !.daily_draft_col = Len(c.headers),
                   !.needs_update = TRUE]
    ELSE c

\* the tuple ensure_columns_exist returns
Columns(c) ==
    <<c.ai_summary_col, c.ai_processed_col, c.daily_draft_col, c.ai_keywords_col>>

WithColumns(rewritten, cols) ==
    [raised |-> rewritten.raised, sheet |-> rewritten.sheet, cols |-> cols]

\* the header row is rewritten when a column was added; the insert positions
\* never exceed len(headers), so the append branches of the inserts are dead
WriteColumns(sh, c, fail) ==
    IF fail \in {"ece_get", "ece_get_429"}
    THEN [raised |-> TRUE, sheet |-> sh, cols |-> Columns(c)]
    ELSE IF ~c.needs_update
    THEN [raised |-> FALSE, sheet |-> sh, cols |-> Columns(c)]
    ELSE IF fail = "ece_get2"
    THEN [raised |-> TRUE, sheet |-> sh, cols |-> Columns(c)]
    ELSE WithColumns(ClearAndRewrite(sh,
                         IF sh # <<>> THEN <<c.headers>> \o Tail(sh)
                         ELSE <<c.headers>>,
                         fail = "ece_clear", fail = "ece_append"),
                     Columns(c))

ensure_columns_exist(sh, generation_mode, fail) ==
    WriteColumns(sh,
        AddDraft(AddProcessed(AddKeywords(AddSummary(
            FindColumns(IF sh # <<>> THEN sh[1] ELSE <<>>)), generation_mode))),
        fail)

\* what the loop of analyze_all_rows reads from a row
PostData(headers, row) ==
    LET headers_lower == [j \in 1..Len(headers) |-> Lower(headers[j])]
    IN  [content |-> Cell(row, IndexOfOr(headers_lower, "content", 4)),
         post_link |-> Cell(row, IndexOfOr(headers_lower, "post link", 3)),
         date |-> Cell(row, IndexOfOr(headers_lower, "date", 0)),
         skipped |->
            \/ Cell(row, IndexWhere(headers, {h \in Elements(headers) : Lower(h) = "ai summary"})) # ""
            \/ Cell(row, IndexWhere(headers, {h \in Elements(headers) : Lower(h) = "ai processed"}))
                   = "TRUE"]

\* the result r of analyze_single_row for sheet row i, recorded
Recorded(acc, i, r) ==
    IF r.raised /\ r.ai_summary = "RATE_LIMITED"
    THEN [acc EXCEPT !.stopped = TRUE]
    ELSE IF r.raised
    THEN [acc EXCEPT !.all_processed_rows = Append(@, <<i, "Analysis failed">>)]
    ELSE [acc EXCEPT
             !.summaries = IF r.project_summary.found
                           THEN Append(@, r.project_summary) ELSE @,
             !.all_processed_rows = Append(@, <<i, r.ai_summary>>)]

\* a loop body that skips a row only for missing content or link
AnalyzeRowAgain(acc, i, post_data, scripts) ==
    IF post_data.content = "" \/ post_data.post_link = ""
    THEN acc
    ELSE Recorded(acc, i,
             analyze_single_row(i, post_data, ReplyFor(scripts, post_data.content)))

\* one pass of the loop body, for sheet row i
AnalyzeRow(acc, i, post_data, scripts) ==
    IF post_data.skipped \/ post_data.content = "" \/ post_data.post_link = ""
    THEN acc
    ELSE Recorded(acc, i,
             analyze_single_row(i, post_data, ReplyFor(scripts, post_data.content)))

\* the loop of analyze_all_rows from sheet row i on; `scripts` gives the AI
\* replies for each post content
RECURSIVE AnalyzeFrom(_, _, _, _)
AnalyzeFrom(i, rows, scripts, acc) ==
    IF i > Len(rows) \/ acc.stopped THEN acc
    ELSE AnalyzeFrom(i + 1, rows, scripts,
                     AnalyzeRow(acc, i, PostData(rows[1], rows[i]), scripts))

NothingAnalyzed == [summaries |-> <<>>, all_processed_rows |-> <<>>, stopped |-> FALSE]

analyze_all_rows(sh, scripts, fail) ==
    IF fail = "aar_get" \/ Len(sh) <= 1 THEN NothingAnalyzed
    ELSE AnalyzeFrom(2, sh, scripts, NothingAnalyzed)

RECURSIVE WriteProcessed(_, _, _, _, _, _)
WriteProcessed(all_rows, all_processed, ai_summary_col, ai_processed_col, ai_keywords_col, generation_mode) ==
    IF all_processed = <<>> THEN all_rows
    ELSE LET row_index == all_processed[1][1]
             ai_analysis == all_processed[1][2]
             row == all_rows[row_index]
             with_analysis ==
                 IF generation_mode = "keywords" /\ ai_keywords_col # -1
                 THEN SetCell(SetCell(row, ai_keywords_col, ai_analysis),
                              ai_summary_col, ai_analysis)
                 ELSE SetCell(row, ai_summary_col, ai_analysis)
             written == SetCell(with_analysis, ai_processed_col, "TRUE")
         IN  WriteProcessed(
                 IF row_index - 1 < Len(all_rows)
                 THEN [all_rows EXCEPT ![row_index] = written] ELSE all_rows,
                 Tail(all_processed), ai_summary_col, ai_processed_col,
                 ai_keywords_col, generation_mode)

write_summaries(all_processed, ai_summary_col, ai_processed_col, ai_keywords_col, sh, generation_mode, fail) ==
    IF all_processed = <<>> \/ fail = "ws_get" THEN sh
    ELSE LET max_col == Max({ai_summary_col, ai_processed_col,
                             IF ai_keywords_col # -1 THEN ai_keywords_col ELSE 0})
             padded == [i \in 1..Len(sh) |-> Pad(sh[i], max_col)]
             all_rows == WriteProcessed(padded, all_processed, ai_summary_col,
                                        ai_processed_col, ai_keywords_col,
                                        generation_mode)
         IN  ClearAndRewrite(sh, all_rows, fail = "ws_clear", fail = "ws_append").sheet

generate_and_write_daily_draft(summaries, daily_draft_col, sh, fail) ==
    IF fail = "gd_get" THEN sh
    ELSE LET daily_draft == create_daily_draft(summaries)
             two == IF Len(sh) < 2
                    THEN sh \o [k \in 1..(2 - Len(sh)) |-> <<>>] ELSE sh
             all_rows == [two EXCEPT ![2] =
                             SetCell(Pad(two[2], daily_draft_col), daily_draft_col,
                                     daily_draft)]
         IN  ClearAndRewrite(sh, all_rows, fail = "gd_clear", fail = "gd_append").sheet

AnalyzerCalls ==
    {"ece_get", "ece_get_429", "ece_get2", "ece_clear", "ece_append", "aar_get", "ws_get",
     "ws_clear", "ws_append", "gd_get", "gd_clear", "gd_append"}

\* a, b, c = <tuple>: raises ValueError unless the tuple has n items
Unpack(tuple, n) == [raised |-> Len(tuple) # n]

\* what the analysis steps after ensure_columns_exist leave in the sheet:
\* write_summaries when rows were processed, then the daily draft when
\* projects were found
WriteAnalysis(aar, ece, ai_keywords_col, generation_mode, fail) ==
    IF aar.all_processed_rows = <<>> THEN ece.sheet
    ELSE IF aar.summaries = <<>>
    THEN write_summaries(aar.all_processed_rows, ece.cols[1], ece.cols[2],
                         ai_keywords_col, ece.sheet, generation_mode, fail)
    ELSE generate_and_write_daily_draft(aar.summaries, ece.cols[3],
             write_summaries(aar.all_processed_rows, ece.cols[1], ece.cols[2],
                             ai_keywords_col, ece.sheet, generation_mode, fail),
             fail)

AfterColumns(ece, generation_mode, scripts, fail) ==
    IF ece.raised \/ Unpack(ece.cols, 4).raised
    THEN [raised |-> TRUE, sheet |-> ece.sheet]
    ELSE [raised |-> FALSE,
          sheet |-> WriteAnalysis(analyze_all_rows(ece.sheet, scripts, fail), ece,
                                  ece.cols[4], generation_mode, fail)]

run_daily_analysis(sh, generation_mode, scripts, fail) ==
    AfterColumns(ensure_columns_exist(sh, generation_mode, fail), generation_mode,
                 scripts, fail)

(***************************************************************************)
(* AsyncDiscordCollector and SequentialProcessor (modules/scheduler.py).   *)
(***************************************************************************)
\* the posts the channel can return
PostPool ==
    {[date |-> "2024-01-01", time |-> "10:00", content |-> "Launch of protocol A",
      post_link |-> "https://x.com/a/status/1", author |-> "alice",
      author_link |-> "https://discord.com/users/1"],
     [date |-> "2024-01-02", time |-> "11:00", content |-> "Price talk about B",
      post_link |-> "https://x.com/b/status/2", author |-> "bob",
      author_link |-> "https://discord.com/users/2"]}

\* what fetch_twitter_posts_with_retry can return in one collection
Batches == UNION {[1..n -> PostPool] : n \in 0..MaxBatch}

\* _save_to_csv, read back by csv.DictReader in process_csv_to_sheets
CsvRows(posts) ==
    [i \in 1..Len(posts) |->
        <<posts[i].date, posts[i].time, posts[i].content, posts[i].post_link,
          posts[i].author, posts[i].author_link>>]

\* collect_to_csv: the CSV rows, or <<>> for None (no posts, or an exception
\* while connecting or fetching)
collect_to_csv(posts, raises) ==
    IF raises \/ posts = <<>> THEN <<>> ELSE CsvRows(posts)

base_headers == <<"Date", "Time", "Content", "Post Link", "Author", "Author Link">>

\* a duplicate check that lets every post through
_filter_nothing(posts, sh, fail) == posts

_filter_duplicates(posts, sh, fail) ==
    IF fail = "fd_get" \/ Len(sh) <= 1 THEN posts
    ELSE LET headers == sh[1]
             link_col_idx == IndexWhere(headers, {h \in Elements(headers) : Contains(h, "Post Link")})
             existing_links ==
                 {Cell(sh[i], link_col_idx) : i \in 2..Len(sh)} \ {""}
         IN  IF link_col_idx < 0 THEN posts
             ELSE SelectSeq(posts,
                     LAMBDA post :
                         IF Len(post) > 3 /\ post[4] # ""
                         THEN post[4] \notin existing_links
                         ELSE TRUE)

UploadCalls == {"fd_get", "pcs_get", "pcs_header", "pcs_append"}

\* the upload of the posts that are left after the duplicate check
UploadNew(new_posts, duplicates, sh, fail) ==
    IF new_posts = <<>>
    THEN [success |-> TRUE, uploaded |-> 0, duplicates |-> duplicates,
          new_posts |-> new_posts, sheet |-> sh]
    ELSE IF fail = "pcs_get" \/ (sh = <<>> /\ fail = "pcs_header")
    THEN [success |-> FALSE, uploaded |-> 0, duplicates |-> duplicates,
          new_posts |-> new_posts, sheet |-> sh]
    ELSE IF fail = "pcs_append"
    THEN [success |-> FALSE, uploaded |-> 0, duplicates |-> duplicates,
          new_posts |-> new_posts,
          sheet |-> IF sh = <<>> THEN AppendRows(sh, <<base_headers>>) ELSE sh]
    ELSE [success |-> TRUE, uploaded |-> Len(new_posts),
          duplicates |-> duplicates, new_posts |-> new_posts,
          sheet |-> AppendRows(IF sh = <<>> THEN AppendRows(sh, <<base_headers>>)
                               ELSE sh,
                               new_posts)]

Filtered(posts, new_posts, sh, fail) ==
    UploadNew(new_posts, Len(posts) - Len(new_posts), sh, fail)

process_csv_to_sheets(posts, sh, skip_duplicates, fail) ==
    IF posts = <<>>
    THEN [success |-> TRUE, uploaded |-> 0, duplicates |-> 0,
          new_posts |-> <<>>, sheet |-> sh]
    ELSE IF skip_duplicates
    THEN Filtered(posts, _filter_duplicates(posts, sh, fail), sh, fail)
    ELSE UploadNew(posts, 0, sh, fail)

max_retries == 3

\* "RATE_LIMITED" in msg or "429" in msg or "quota" in msg.lower()
IsRateLimitError(msg) == msg \in {"RATE_LIMITED", "HttpError 429", "Quota exceeded"}

\* str(e) of the exception a failing spreadsheet call raises
ErrorOf(fail) == IF fail = "ece_get_429" THEN "HttpError 429" ELSE "HttpError 500"

AnalysisResult(success, aar, errors, attempts, sh) ==
    [success |-> success, posts_analyzed |-> Len(aar.all_processed_rows),
     projects_found |-> Len(aar.summaries), errors |-> errors,
     attempts |-> attempts, sheet |-> sh]

\* the try block of run_gemini_analysis after ensure_columns_exist returned
AnalyzeAndWrite(attempts, ece, aar, fail) ==
    AnalysisResult(TRUE, aar, <<>>, attempts,
                   WriteAnalysis(aar, ece, -1, "summary", fail))

\* one pass of the retry loop of run_gemini_analysis and the passes after it
RECURSIVE GeminiAttempt(_, _, _, _)
AttemptOutcome(retry_count, ece, scripts, fail) ==
    IF ece.raised /\ IsRateLimitError(ErrorOf(fail))
    THEN IF retry_count + 1 < max_retries
         THEN GeminiAttempt(retry_count + 1, ece.sheet, scripts, fail)
         ELSE AnalysisResult(FALSE, NothingAnalyzed,
                             <<"Rate limited after multiple retries">>,
                             retry_count + 1, ece.sheet)
    ELSE IF ece.raised
    THEN AnalysisResult(FALSE, NothingAnalyzed, <<ErrorOf(fail)>>,
                        retry_count + 1, ece.sheet)
    ELSE IF Unpack(ece.cols, 3).raised
    THEN AnalysisResult(FALSE, NothingAnalyzed,
                        <<"too many values to unpack (expected 3)">>,
                        retry_count + 1, ece.sheet)
    ELSE AnalyzeAndWrite(retry_count + 1, ece,
                         analyze_all_rows(ece.sheet, scripts, fail), fail)

GeminiAttempt(retry_count, sh, scripts, fail) ==
    AttemptOutcome(retry_count, ensure_columns_exist(sh, "summary", fail),
                   scripts, fail)

\* analysis that stopped after some posts counts as success
PartialSuccess(r) == [r EXCEPT !.success = r.success \/ r.posts_analyzed > 0]

run_gemini_analysis(sh, gemini_analyzer, scripts, fail) ==
    IF ~gemini_analyzer
    THEN AnalysisResult(TRUE, NothingAnalyzed, <<>>, 0, sh)
    ELSE PartialSuccess(GeminiAttempt(0, sh, scripts, fail))

(***************************************************************************)
(* Publishing.  A PublishResult is what the wrapped backend's publish      *)
(* returns for the draft.                                                  *)
(***************************************************************************)
PublishResults ==
    {[success |-> TRUE, url |-> "https://x.com/i/status/9", post_id |-> "9",
      error_msg |-> ""],
     [success |-> FALSE, url |-> "", post_id |-> "", error_msg |-> "API error"]}

\* SheetPublisher.publish_from_sheet: publishes the draft of the row and, on
\* success, writes the receipt (URL, else id) into the row under
\* 'Publication receipt', adding that header when the sheet lacks it
publish_from_sheet(row_index, sh, publish_result) ==
    LET headers == sh[1]
        found == IndexWhere(headers, {h \in Elements(headers) : Lower(h) = "publication receipt"})
        receipt_col == IF found = -1 THEN Len(headers) ELSE found
        receipt == IF publish_result.url # "" THEN publish_result.url
                   ELSE publish_result.post_id
        with_header == IF found = -1
                       THEN [sh EXCEPT ![1] = Append(headers, "Publication receipt")]
                       ELSE sh
        written == [with_header EXCEPT ![row_index] =
                       SetCell(Pad(sh[row_index], receipt_col), receipt_col, receipt)]
    IN  [result |-> publish_result,
         sheet |-> IF publish_result.success THEN TrimRows(written) ELSE sh]

\* first sheet row (2-based on) whose draft cell is not blank, 0 if none
FirstDraftRow(sh, draft_col) ==
    LET S == {i \in 2..Len(sh) :
                 Cell(sh[i], draft_col) # "" /\ Strip(Cell(sh[i], draft_col)) # ""}
    IN  IF S = {} THEN 0 ELSE Min(S)

run_publisher(sh, publisher, publish_result, fail) ==
    LET draft_col == IndexWhere(sh[1],
                        {h \in Elements(sh[1]) :
                            Contains(h, "Daily Post Draft")
                            \/ Contains(h, "AI Draft")})
        row == FirstDraftRow(sh, draft_col)
        pfs == publish_from_sheet(row, sh, publish_result)
        skipped == [success |-> TRUE, published |-> FALSE, attempted |-> FALSE,
                    sheet |-> sh]
    IN  IF ~publisher THEN skipped
        ELSE IF fail = "pub_get"
        THEN [success |-> FALSE, published |-> FALSE, attempted |-> FALSE,
              sheet |-> sh]
        ELSE IF Len(sh) < 2 \/ draft_col < 0 \/ row = 0 THEN skipped
        ELSE [success |-> pfs.result.success, published |-> pfs.result.success,
              attempted |-> TRUE, sheet |-> pfs.sheet]

run_archiver(sh, arch, exists, fail) == run_archive_workflow(sh, arch, exists, fail)

\* "rate" in err.lower() or "quota" in err.lower(), for some error of the list
MentionsRateLimit(errors) ==
    \E i \in 1..Len(errors) :
        errors[i] \in {"Rate limited after multiple retries", "Quota exceeded"}

(***************************************************************************)
(* WorkflowOrchestrator (modules/workflow_orchestrator.py).                *)
(***************************************************************************)
\* the try block of run_analysis, given what ensure_columns_exist did
AnalysisOutcome(ece, scripts, fail) ==
    IF ece.raised
    THEN AnalysisResult(FALSE, NothingAnalyzed, <<ErrorOf(fail)>>, 1, ece.sheet)
    ELSE IF Unpack(ece.cols, 3).raised
    THEN AnalysisResult(FALSE, NothingAnalyzed,
                        <<"too many values to unpack (expected 3)">>, 1, ece.sheet)
    ELSE AnalyzeAndWrite(1, ece, analyze_all_rows(ece.sheet, scripts, fail), fail)

run_analysis(sh, gemini, scripts, fail) ==
    IF ~gemini
    THEN AnalysisResult(FALSE, NothingAnalyzed,
                        <<"Gemini analyzer not initialized">>, 0, sh)
    ELSE AnalysisOutcome(ensure_columns_exist(sh, "summary", fail), scripts, fail)

run_publishing(sh, publisher, publish_result, fail) ==
    LET draft_col_idx == IF sh = <<>> THEN -1
                         ELSE IndexOfOr(sh[1], "Daily Post Draft", -1)
        row_to_publish == FirstDraftRow(sh, draft_col_idx)
        pfs == publish_from_sheet(row_to_publish, sh, publish_result)
        failed(msg) == [success |-> FALSE, published |-> FALSE, attempted |-> FALSE,
                        errors |-> <<msg>>, sheet |-> sh]
    IN  IF ~publisher THEN failed("Publisher not initialized")
        ELSE IF fail = "pub_get" THEN failed("HttpError 500")
        ELSE IF Len(sh) < 2 THEN failed("No data rows in sheet")
        ELSE IF draft_col_idx = -1 THEN failed("Daily Post Draft column not found")
        ELSE IF row_to_publish = 0 THEN failed("No draft found to publish")
        ELSE [success |-> pfs.result.success, published |-> pfs.result.success,
              attempted |-> TRUE,
              errors |-> IF pfs.result.success THEN <<>>
                         ELSE <<pfs.result.error_msg>>,
              sheet |-> pfs.sheet]

run_archiving(sh, arch, exists, fail) == run_archive_workflow(sh, arch, exists, fail)


(***************************************************************************)
(* The state machine.  pc is "idle" between runs, the name of the phase    *)
(* that runs next inside a run, and "done" when the run has its results.   *)
(***************************************************************************)
\* whether the processor holds a Gemini analyzer and a publisher; a phase
\* records what it found when it consults the component
NoConfig == [gemini |-> FALSE, publisher |-> FALSE]

NoResults ==
    [kind |-> "none", sheets_upload |-> "none", analysis |-> "none",
     publishing |-> "none", archiving |-> "none",
     posts_archived |-> 0, overall_success |-> FALSE, csv_file |-> "none",
     published |-> FALSE]

\* cleanup_csv: the file is moved from where it is to data/processed
cleanup_csv(csv_file) == IF csv_file = "data" THEN "data/processed" ELSE csv_file

NoUpload ==
    [skip_duplicates |-> FALSE, sheet_read |-> FALSE, new_posts |-> <<>>,
     duplicates |-> 0]

Status(success) == IF success THEN "success" ELSE "failure"

\* a pipeline that publishes before it analyzes
publish_first_phases ==
    <<"collection", "upload", "publishing", "analysis", "archiving">>

\* the order in which run_complete_pipeline runs its phases
pipeline_phases == <<"collection", "upload", "analysis", "publishing", "archiving">>

AfterPhase(phase) ==
    LET k == CHOOSE i \in 1..Len(pipeline_phases) : pipeline_phases[i] = phase
    IN  IF k = Len(pipeline_phases) THEN "done" ELSE pipeline_phases[k + 1]

\* the order of the steps of run_complete_workflow
workflow_steps == <<"analysis", "publishing", "archiving">>

AfterStep(step) ==
    LET k == CHOOSE i \in 1..Len(workflow_steps) : workflow_steps[i] = step
    IN  IF k = Len(workflow_steps) THEN "done" ELSE workflow_steps[k + 1]

\* a workflow that archives only when a publisher is configured
StepRunsWithPublisher(step, gemini, publisher) ==
    CASE step = "analysis" -> gemini
      [] step = "publishing" -> publisher
      [] step = "archiving" -> publisher

\* whether run_complete_workflow runs a step
StepRuns(step, gemini, publisher) ==
    CASE step = "analysis" -> gemini
      [] step = "publishing" -> publisher
      [] step = "archiving" -> TRUE

\* the overall_success of run_complete_pipeline when a CSV was collected
PipelineOverall(sheets_success, ai_success, pub_success, archive_success) ==
    sheets_success /\ ai_success /\ archive_success

\* the overall_success of run_complete_workflow; a step that did not run
\* has no result
WorkflowOverall(analysis, publishing, archiving) ==
    /\ (IF analysis # "none" THEN analysis = "success" ELSE TRUE)
    /\ (IF publishing # "none" THEN publishing = "success" ELSE TRUE)
    /\ (IF archiving # "none" THEN archiving = "success" ELSE FALSE)

DataRows(tab) == IF Len(tab) <= 1 THEN <<>> ELSE Tail(tab)

\* the calls of `calls` that may fail in the next phase, and "none"
MayFail(calls) == IF faults < MaxFaults THEN calls \cup {"none"} ELSE {"none"}

\* a failing call counts when it changed the outcome of the phase; in the
\* actions `clean` is the outcome of the phase when no call fails
Failed(outcome, clean_outcome) == IF outcome = clean_outcome THEN 0 ELSE 1

\* the AI replies a run can get; none is asked for without an analyzer
Scripts(analyzer) ==
    IF analyzer THEN ScriptAssignments ELSE {[c \in Contents |-> NoScript]}

\* no analysis call was made on its own yet
NoPass == [call |-> "none"]

\* no rate limiter was constructed
NoLimiter == [made |-> FALSE]

\* config.py was not loaded
NoEnv == [loaded |-> FALSE]

\* collect_to_csv is not running
NoHandler == [at |-> "none"]

\* main() was not started: the entry points are called directly
NoRunner ==
    [mode |-> "off", at |-> "off", shutdown |-> FALSE, caught |-> "none",
     status |-> -1, last |-> "none", ran |-> <<>>]

\* the scheduled job (or run_manual) enters run_complete_pipeline
InCycle(r) == IF r.at = "job" THEN [r EXCEPT !.at = "cycle"] ELSE r

\* a daemon that gives up after a cycle that failed
AfterCycleStopsOnFailure(r, phases, overall_success) ==
    CASE r.mode = "manual" ->
             [r EXCEPT !.at = "exited",
                       !.status = IF overall_success THEN 0 ELSE 1,
                       !.last = Status(overall_success), !.ran = phases]
      [] r.mode = "daemon" ->
             [r EXCEPT !.at = IF overall_success THEN "sleep" ELSE "exited",
                       !.status = IF overall_success THEN @ ELSE 1,
                       !.last = Status(overall_success), !.ran = phases]
      [] OTHER -> r

\* a manual run that falls off the end of main() whatever the pass reported
AfterCycleExitsZero(r, phases, overall_success) ==
    CASE r.mode = "manual" ->
             [r EXCEPT !.at = "exited", !.status = 0,
                       !.last = Status(overall_success), !.ran = phases]
      [] r.mode = "daemon" ->
             [r EXCEPT !.at = "sleep",
                       !.last = Status(overall_success), !.ran = phases]
      [] OTHER -> r

\* run_complete_pipeline returned its results: main() exits with the status
\* of a manual run, the daemon loop goes on to time.sleep(60)
AfterCycle(r, phases, overall_success) ==
    CASE r.mode = "manual" ->
            [r EXCEPT !.at = "exited",
                      !.status = IF overall_success THEN 0 ELSE 1,
                      !.last = Status(overall_success), !.ran = phases]
      [] r.mode = "daemon" ->
            [r EXCEPT !.at = "sleep", !.last = Status(overall_success),
                      !.ran = phases]
      [] OTHER -> r

Init ==
    /\ sheet = <<>>
    /\ archive = <<>>
    /\ archiveExists = FALSE
    /\ pc = "idle"
    /\ cfg = NoConfig
    /\ csv = <<>>
    /\ results = NoResults
    /\ events = <<>>
    /\ upl = NoUpload
    /\ faults = 0
    /\ pass = NoPass
    /\ rl = NoLimiter
    /\ xp = NoLimiter
    /\ env = NoEnv
    /\ handler = NoHandler
    /\ runner = NoRunner

(***************************************************************************)
(* ScheduledTaskRunner.run_complete_pipeline, one action per phase.        *)
(***************************************************************************)
Collect ==
    /\ pc = "idle"
    /\ Len(DataRows(archive)) < MaxArchive
    /\ \E posts \in Batches, raises \in BOOLEAN :
          /\ csv' = collect_to_csv(posts, raises)
          /\ IF csv' # <<>>
             THEN /\ pc' = AfterPhase("collection")
                  /\ results' = [NoResults EXCEPT !.kind = "pipeline",
                                                  !.csv_file = "data"]
             ELSE /\ pc' = "done"
                  /\ results' = [NoResults EXCEPT !.kind = "pipeline",
                                                  !.overall_success = TRUE]
    /\ events' = <<"collection">>
    /\ UNCHANGED <<sheet, archive, archiveExists, cfg, upl, faults>>
    /\ runner.at \in {"off", "job"}
    /\ runner' = InCycle(runner)
    /\ UNCHANGED <<pass, rl, xp, env, handler>>

\* `settings` holds the values DISCORD_SKIP_DUPLICATES may have
Upload(settings) ==
    /\ pc = "upload" /\ results.kind = "pipeline"
    /\ \E skip_duplicates \in settings :
          \E clean \in {process_csv_to_sheets(csv, sheet, skip_duplicates, "none")} :
              \E fail \in MayFail(UploadCalls) :
                \E r \in {process_csv_to_sheets(csv, sheet, skip_duplicates, fail)} :
                    /\ Len(DataRows(r.sheet)) <= MaxRows
                    /\ sheet' = r.sheet
                    /\ results' = [results EXCEPT
                                      !.sheets_upload = Status(r.success)]
                    /\ upl' = [skip_duplicates |-> skip_duplicates,
                               sheet_read |-> fail # "fd_get",
                               new_posts |-> r.new_posts,
                               duplicates |-> r.duplicates]
                    /\ faults' = faults + Failed(r, clean)
    /\ csv' = <<>>
    /\ events' = Append(events, "upload")
    /\ pc' = AfterPhase("upload")
    /\ UNCHANGED <<archive, archiveExists, cfg>>
    /\ UNCHANGED <<pass, rl, xp, env, handler, runner>>

Analysis ==
    /\ pc = "analysis" /\ results.kind = "pipeline"
    /\ \E gemini_analyzer \in BOOLEAN :
       \E scripts \in Scripts(gemini_analyzer) :
          \E clean \in {run_gemini_analysis(sheet, gemini_analyzer, scripts, "none")} :
              \E fail \in MayFail(AnalyzerCalls) :
                \E r \in {run_gemini_analysis(sheet, gemini_analyzer, scripts, fail)} :
                    \E skip_ai \in BOOLEAN :
                      /\ sheet' = r.sheet
                      /\ results' = [results EXCEPT !.analysis =
                            Status(\/ r.success
                                   \/ skip_ai /\ MentionsRateLimit(r.errors))]
                      /\ faults' = faults + Failed(r, clean)
    /\ events' = Append(events, "analysis")
    /\ pc' = AfterPhase("analysis")
    /\ upl' = NoUpload
    /\ UNCHANGED <<archive, archiveExists, cfg, csv>>
    /\ UNCHANGED <<pass, rl, xp, env, handler, runner>>

Publish ==
    /\ pc = "publishing" /\ results.kind = "pipeline"
    /\ \E publisher \in BOOLEAN, publish_result \in PublishResults :
          \E clean \in {run_publisher(sheet, publisher, publish_result, "none")} :
              \E fail \in MayFail({"pub_get"}) :
                \E r \in {run_publisher(sheet, publisher, publish_result, fail)} :
                    /\ sheet' = r.sheet
                    /\ results' = [results EXCEPT !.publishing = Status(r.success),
                                                  !.published = r.published]
                    /\ faults' = faults + Failed(r, clean)
    /\ events' = Append(events, "publishing")
    /\ pc' = AfterPhase("publishing")
    /\ UNCHANGED <<archive, archiveExists, cfg, csv, upl>>
    /\ UNCHANGED <<pass, rl, xp, env, handler, runner>>

\* the last phase, with the cleanup_csv and the overall_success that follow it
Archive ==
    /\ pc = "archiving" /\ results.kind = "pipeline"
    /\ \E clean \in {run_archiver(sheet, archive, archiveExists, "none")} :
           \E fail \in MayFail(ArchiveCalls) :
             \E r \in {run_archiver(sheet, archive, archiveExists, fail)} :
                 /\ Len(DataRows(r.archive)) <= MaxArchive
                 /\ sheet' = r.sheet
                 /\ archive' = r.archive
                 /\ archiveExists' = r.exists
                 /\ results' = [results EXCEPT
                       !.archiving = Status(r.success),
                       !.posts_archived = r.posts_archived,
                       !.csv_file = cleanup_csv(@),
                       !.overall_success =
                           PipelineOverall(results.sheets_upload = "success",
                                           results.analysis = "success",
                                           results.publishing = "success",
                                           r.success)]
                 /\ faults' = faults + Failed(r, clean)
    /\ events' = Append(events, "archiving")
    /\ pc' = AfterPhase("archiving")
    /\ UNCHANGED <<cfg, csv, upl>>
    /\ UNCHANGED <<pass, rl, xp, env, handler, runner>>

\* the run returns its results
Return ==
    /\ pc = "done"
    /\ pc' = "idle"
    /\ cfg' = NoConfig
    /\ csv' = <<>>
    /\ results' = NoResults
    /\ events' = <<>>
    /\ upl' = NoUpload
    /\ faults' = 0
    /\ UNCHANGED <<sheet, archive, archiveExists>>
    /\ runner' = AfterCycle(runner, events, results.overall_success)
    /\ UNCHANGED <<pass, rl, xp, env, handler>>

(***************************************************************************)
(* WorkflowOrchestrator.run_complete_workflow, one action per step.        *)
(***************************************************************************)
WorkflowAnalysis ==
    /\ pc = "idle"
    /\ Len(DataRows(archive)) < MaxArchive
    /\ \E gemini \in BOOLEAN :
          /\ cfg' = [NoConfig EXCEPT !.gemini = gemini]
          /\ IF StepRuns("analysis", gemini, FALSE)
             THEN \E scripts \in Scripts(gemini) :
                    \E clean \in {run_analysis(sheet, gemini, scripts, "none")} :
                        \E fail \in MayFail(AnalyzerCalls) :
                          \E r \in {run_analysis(sheet, gemini, scripts, fail)} :
                              /\ sheet' = r.sheet
                              /\ results' = [NoResults EXCEPT
                                    !.kind = "workflow",
                                    !.analysis = Status(r.success)]
                              /\ faults' = faults + Failed(r, clean)
                              /\ events' = <<"analysis">>
             ELSE /\ results' = [NoResults EXCEPT !.kind = "workflow"]
                  /\ events' = <<>>
                  /\ UNCHANGED <<sheet, faults>>
    /\ pc' = AfterStep("analysis")
    /\ UNCHANGED <<archive, archiveExists, csv, upl>>
    /\ UNCHANGED <<pass, rl, xp, env, handler, runner>>

WorkflowPublishing ==
    /\ pc = "publishing" /\ results.kind = "workflow"
    /\ \E publisher \in BOOLEAN :
          /\ cfg' = [cfg EXCEPT !.publisher = publisher]
          /\ IF StepRuns("publishing", cfg.gemini, publisher)
             THEN \E publish_result \in PublishResults :
                    \E clean \in {run_publishing(sheet, publisher, publish_result,
                                                "none")} :
                        \E fail \in MayFail({"pub_get"}) :
                          \E r \in {run_publishing(sheet, publisher,
                                                  publish_result, fail)} :
                              /\ sheet' = r.sheet
                              /\ results' = [results EXCEPT
                                    !.publishing = Status(r.success),
                                    !.published = r.published]
                              /\ faults' = faults + Failed(r, clean)
                              /\ events' = Append(events, "publishing")
             ELSE UNCHANGED <<sheet, results, faults, events>>
    /\ pc' = AfterStep("publishing")
    /\ UNCHANGED <<archive, archiveExists, csv, upl>>
    /\ UNCHANGED <<pass, rl, xp, env, handler, runner>>

\* the last step, with the overall_success that follows it
WorkflowArchiving ==
    /\ pc = "archiving" /\ results.kind = "workflow"
    /\ IF StepRuns("archiving", cfg.gemini, cfg.publisher)
       THEN \E clean \in {run_archiving(sheet, archive, archiveExists, "none")} :
                \E fail \in MayFail(ArchiveCalls) :
                  \E r \in {run_archiving(sheet, archive, archiveExists, fail)} :
                      /\ Len(DataRows(r.archive)) <= MaxArchive
                      /\ sheet' = r.sheet
                      /\ archive' = r.archive
                      /\ archiveExists' = r.exists
                      /\ results' = [results EXCEPT
                            !.archiving = Status(r.success),
                            !.posts_archived = r.posts_archived,
                            !.overall_success =
                                WorkflowOverall(results.analysis,
                                                results.publishing,
                                                Status(r.success))]
                      /\ faults' = faults + Failed(r, clean)
                      /\ events' = Append(events, "archiving")
       ELSE /\ results' = [results EXCEPT !.overall_success =
                              WorkflowOverall(results.analysis,
                                              results.publishing, "none")]
            /\ UNCHANGED <<sheet, archive, archiveExists, faults, events>>
    /\ pc' = AfterStep("archiving")
    /\ UNCHANGED <<cfg, csv, upl>>
    /\ UNCHANGED <<pass, rl, xp, env, handler, runner>>

(***************************************************************************)
(* SheetAnalyzer.run_daily_analysis, run on its own between cycles.        *)
(***************************************************************************)
RunDailyAnalysis ==
    /\ pc = "idle"
    /\ Len(DataRows(archive)) < MaxArchive
    /\ \E scripts \in Scripts(TRUE), fail \in MayFail(AnalyzerCalls) :
          sheet' = run_daily_analysis(sheet, "summary", scripts, fail).sheet
    /\ UNCHANGED <<archive, archiveExists, pc, cfg, csv, results, events, upl,
                   faults>>
    /\ UNCHANGED <<pass, rl, xp, env, handler, runner>>

Next ==
    \/ Collect
    \/ Upload(BOOLEAN)
    \/ Analysis
    \/ Publish
    \/ Archive
    \/ Return
    \/ WorkflowAnalysis
    \/ WorkflowPublishing
    \/ WorkflowArchiving
    \/ RunDailyAnalysis

Spec == Init /\ [][Next]_vars

\* pipeline cycles one after the other on a tab that run_daily_analysis
\* left with a draft; within these cycles nothing writes a new draft (the
\* analysis phase fails before it writes)
\* format_post_data for a message with a link whose rich embed has a
\* description of zero-width spaces only: the description replaces the
\* message text and clean_content leaves nothing of it
blank_content_post ==
    [date |-> "2024-01-01", time |-> "09:00", content |-> "",
     post_link |-> "https://x.com/c/status/3", author |-> "carol",
     author_link |-> "https://discord.com/users/3"]

\* the posts the tab of a first cycle was filled from
CyclePosts ==
    (Batches \ {<<>>}) \cup {<<blank_content_post, p>> : p \in PostPool}

InitCycles ==
    /\ \E posts \in CyclePosts, scripts \in ScriptAssignments :
          sheet = run_daily_analysis(
                      process_csv_to_sheets(CsvRows(posts), <<>>, FALSE, "none").sheet,
                      "summary", scripts, "none").sheet
    /\ archive = <<>>
    /\ archiveExists = FALSE
    /\ pc = "idle"
    /\ cfg = NoConfig
    /\ csv = <<>>
    /\ results = NoResults
    /\ events = <<>>
    /\ upl = NoUpload
    /\ faults = 0
    /\ pass = NoPass
    /\ rl = NoLimiter
    /\ xp = NoLimiter
    /\ env = NoEnv
    /\ handler = NoHandler
    /\ runner = NoRunner

NextCycles ==
    \/ Collect
    \/ Upload(BOOLEAN)
    \/ Analysis
    \/ Publish
    \/ Archive
    \/ Return

SpecCycles == InitCycles /\ [][NextCycles]_vars

\* the cycles in which DISCORD_SKIP_DUPLICATES is always enabled
NextSkip ==
    \/ Collect
    \/ Upload({TRUE})
    \/ Analysis
    \/ Publish
    \/ Archive
    \/ Return
    \/ WorkflowAnalysis
    \/ WorkflowPublishing
    \/ WorkflowArchiving
    \/ RunDailyAnalysis

SpecSkip == Init /\ [][NextSkip]_vars

(***************************************************************************)
(* The analysis entry points called on their own on an uploaded tab; the   *)
(* call, its inputs and what it returned are kept in `pass`.               *)
(***************************************************************************)
\* the spreadsheet requests that may fail in these calls: one of each step
AnalysisFails ==
    {"none", "ece_get_429", "ece_append", "aar_get", "ws_append", "gd_append"}

\* the tabs the upload of one batch leaves behind
InitAnalysis ==
    /\ \E posts \in Batches :
          sheet = process_csv_to_sheets(CsvRows(posts), <<>>, FALSE, "none").sheet
    /\ archive = <<>>
    /\ archiveExists = FALSE
    /\ pc = "idle"
    /\ cfg = NoConfig
    /\ csv = <<>>
    /\ results = NoResults
    /\ events = <<>>
    /\ upl = NoUpload
    /\ faults = 0
    /\ pass = NoPass
    /\ rl = NoLimiter
    /\ xp = NoLimiter
    /\ env = NoEnv
    /\ handler = NoHandler
    /\ runner = NoRunner

\* SheetAnalyzer.analyze_all_rows: it reads the tab and writes nothing
AnalyzeAllRows ==
    /\ \E scripts \in ScriptAssignments, fail \in {"aar_get", "none"} :
          pass' = [call |-> "analyze_all_rows", scripts |-> scripts,
                   fail |-> fail, before |-> sheet,
                   after_write |-> pass.call = "write_summaries" /\ pass.written,
                   out |-> analyze_all_rows(sheet, scripts, fail)]
    /\ UNCHANGED <<sheet, archive, archiveExists, pc, cfg, csv, results, events,
                   upl, faults, rl, xp, env, handler, runner>>

\* the analysis phase of the pipeline (run_gemini_analysis) or of the
\* workflow (run_analysis), with an analyzer configured
AnalysisPhase(call) ==
    /\ \E scripts \in ScriptAssignments, fail \in AnalysisFails :
          \E r \in {IF call = "run_gemini_analysis"
                    THEN run_gemini_analysis(sheet, TRUE, scripts, fail)
                    ELSE run_analysis(sheet, TRUE, scripts, fail)} :
              /\ sheet' = r.sheet
              /\ pass' = [call |-> call, scripts |-> scripts, fail |-> fail,
                          before |-> sheet, out |-> r]
    /\ UNCHANGED <<archive, archiveExists, pc, cfg, csv, results, events, upl,
                   faults, rl, xp, env, handler, runner>>

\* SheetAnalyzer.run_daily_analysis
DailyAnalysis ==
    /\ \E scripts \in ScriptAssignments, fail \in AnalysisFails :
          \E r \in {run_daily_analysis(sheet, "summary", scripts, fail)} :
              /\ sheet' = r.sheet
              /\ pass' = [call |-> "run_daily_analysis", scripts |-> scripts,
                          fail |-> fail, before |-> sheet, out |-> r]
    /\ UNCHANGED <<archive, archiveExists, pc, cfg, csv, results, events, upl,
                   faults, rl, xp, env, handler, runner>>

\* SheetAnalyzer.write_summaries, called as run_daily_analysis calls it:
\* with the non-empty list of the pass just made and the columns of the
\* header row
WriteSummaries ==
    /\ pass.call = "analyze_all_rows"
    /\ pass.before = sheet
    /\ pass.out.all_processed_rows # <<>>
    /\ \E cols \in {FindColumns(sheet[1])}, fail \in {"none", "ws_get", "ws_append"} :
          /\ cols.ai_summary_col # -1
          /\ cols.ai_processed_col # -1
          /\ sheet' = write_summaries(pass.out.all_processed_rows,
                                      cols.ai_summary_col, cols.ai_processed_col,
                                      cols.ai_keywords_col, sheet, "summary", fail)
          /\ pass' = [call |-> "write_summaries", fail |-> fail,
                      written |-> fail = "none",
                      all_processed |-> pass.out.all_processed_rows,
                      before |-> sheet]
    /\ UNCHANGED <<archive, archiveExists, pc, cfg, csv, results, events, upl,
                   faults, rl, xp, env, handler, runner>>

\* the data rows a working tab can hold when a pass starts: the post with or
\* without content and link, the analysis columns filled or not
AnalysisRowPool(analysis_columns) ==
    {<<"2024-01-01", "10:00", content, post_link, "alice",
       "https://discord.com/users/1">> \o marks :
        content \in {"", "Launch of protocol A"},
        post_link \in {"", "https://x.com/a/status/1"},
        marks \in IF analysis_columns
                  THEN {<<ai_summary, ai_processed>> :
                           ai_summary \in {"", "Lending protocol"},
                           ai_processed \in {"", "TRUE", "FALSE"}}
                  ELSE {<<>>}}

\* the working tabs: the header row as the upload or ensure_columns_exist
\* leaves it, and up to MaxRows data rows, as values().get returns them
AnalysisSheetPool ==
    UNION {{TrimRows(<<IF analysis_columns
                      THEN base_headers \o <<"AI Summary", "AI processed",
                                             "Daily Post Draft">>
                      ELSE base_headers>> \o rows) :
               rows \in UNION {[1..n -> AnalysisRowPool(analysis_columns)] :
                                  n \in 0..MaxRows}} :
           analysis_columns \in BOOLEAN}

InitPasses ==
    /\ sheet \in AnalysisSheetPool
    /\ archive = <<>>
    /\ archiveExists = FALSE
    /\ pc = "idle"
    /\ cfg = NoConfig
    /\ csv = <<>>
    /\ results = NoResults
    /\ events = <<>>
    /\ upl = NoUpload
    /\ faults = 0
    /\ pass = NoPass
    /\ rl = NoLimiter
    /\ xp = NoLimiter
    /\ env = NoEnv
    /\ handler = NoHandler
    /\ runner = NoRunner

NextPasses ==
    \/ AnalyzeAllRows
    \/ WriteSummaries

SpecPasses == InitPasses /\ [][NextPasses]_vars

NextAnalysis ==
    \/ AnalyzeAllRows
    \/ AnalysisPhase("run_gemini_analysis")
    \/ AnalysisPhase("run_analysis")
    \/ DailyAnalysis

SpecAnalysis == InitAnalysis /\ [][NextAnalysis]_vars

(***************************************************************************)
(* RateLimitManager and GeminiAnalyzer._make_request (gemini_analyzer.py). *)
(* The clock is kept as what the code reads from it: whether today's date  *)
(* is past last_reset's, and now - last_minute as the days and seconds of  *)
(* a timedelta (the seconds are kept up to 60, days up to 1).              *)
(***************************************************************************)
MaxDailyLimit == 15     \* largest GEMINI_DAILY_LIMIT of the model

\* requests per minute can_make_request allows
minute_limit == 14

\* RateLimitManager.__init__
RateLimitManager(daily_limit) ==
    [made |-> TRUE, daily_limit |-> daily_limit, daily_requests |-> 0,
     minute_requests |-> 0, date_ahead |-> FALSE, days |-> 0, seconds |-> 0,
     last |-> [op |-> "none"]]

\* the clock moves on: by 30 seconds, by 30 seconds across midnight, or by
\* 24 hours
ClockAfter(r, step) ==
    CASE step = "30s" -> [r EXCEPT !.seconds = Min({@ + 30, 60})]
      [] step = "midnight" ->
            [r EXCEPT !.seconds = Min({@ + 30, 60}), !.date_ahead = TRUE]
      [] step = "day" -> [r EXCEPT !.days = 1, !.date_ahead = TRUE]

\* the two resets of can_make_request; timedelta.seconds leaves the days out
AfterResets(r) ==
    LET daily == IF r.date_ahead
                 THEN [r EXCEPT !.daily_requests = 0, !.date_ahead = FALSE]
                 ELSE r
    IN  IF daily.seconds >= 60
        THEN [daily EXCEPT !.minute_requests = 0, !.days = 0, !.seconds = 0]
        ELSE daily

can_make_request(r) ==
    [rl |-> AfterResets(r),
     result |-> IF AfterResets(r).daily_requests >= r.daily_limit THEN FALSE
                ELSE IF AfterResets(r).minute_requests >= minute_limit THEN FALSE
                ELSE TRUE]

record_request(r) ==
    [r EXCEPT !.daily_requests = @ + 1, !.minute_requests = @ + 1]

\* wait_if_needed: `midnight` tells whether the sleep ends on the next day
wait_if_needed(r, midnight) ==
    LET c == can_make_request(r)
    IN  IF c.result THEN [rl |-> c.rl, raised |-> FALSE, slept |-> FALSE]
        ELSE IF c.rl.minute_requests >= minute_limit
        THEN [rl |-> [c.rl EXCEPT !.minute_requests = 0, !.days = 0,
                                  !.seconds = 0,
                                  !.date_ahead = @ \/ midnight],
              raised |-> FALSE, slept |-> TRUE]
        ELSE [rl |-> c.rl, raised |-> TRUE, slept |-> FALSE]

\* _make_request: `reply` is what generate_content does
_make_request(r, reply, midnight) ==
    LET w == wait_if_needed(r, midnight)
    IN  IF w.raised
        THEN [rl |-> w.rl, outcome |-> "Daily rate limit reached", slept |-> FALSE]
        ELSE IF reply.raised
        THEN [rl |-> w.rl, outcome |-> reply.text, slept |-> w.slept]
        ELSE [rl |-> record_request(w.rl), outcome |-> "response",
              slept |-> w.slept]

\* what a call found when it checked the limits, after the resets
Found(r) ==
    [daily_reached |-> AfterResets(r).daily_requests >= r.daily_limit,
     minute_requests |-> r.minute_requests,
     in_window |-> r.days = 0 /\ r.seconds < 60,
     date_ahead |-> r.date_ahead]

InitLimiter ==
    /\ sheet = <<>>
    /\ archive = <<>>
    /\ archiveExists = FALSE
    /\ pc = "idle"
    /\ cfg = NoConfig
    /\ csv = <<>>
    /\ results = NoResults
    /\ events = <<>>
    /\ upl = NoUpload
    /\ faults = 0
    /\ pass = NoPass
    /\ rl \in {RateLimitManager(daily_limit) :
                  daily_limit \in minute_limit..MaxDailyLimit}
    /\ xp = NoLimiter
    /\ env = NoEnv
    /\ handler = NoHandler
    /\ runner = NoRunner

ClockAdvances ==
    /\ \E step \in {"30s", "midnight", "day"} :
          rl' = [ClockAfter(rl, step) EXCEPT !.last = [op |-> "none"]]
    /\ UNCHANGED <<sheet, archive, archiveExists, pc, cfg, csv, results, events,
                   upl, faults, pass, xp, env, handler, runner>>

CanMakeRequest ==
    /\ \E c \in {can_make_request(rl)} :
          rl' = [c.rl EXCEPT !.last =
                    [op |-> "can_make_request", result |-> c.result,
                     found |-> Found(rl)]]
    /\ UNCHANGED <<sheet, archive, archiveExists, pc, cfg, csv, results, events,
                   upl, faults, pass, xp, env, handler, runner>>

MakeRequest ==
    /\ rl.daily_requests <= MaxDailyLimit
    /\ \E reply \in {Ok("YES"), Raised("RATE_LIMITED")}, midnight \in BOOLEAN :
          \E m \in {_make_request(rl, reply, midnight)} :
              rl' = [m.rl EXCEPT !.last =
                        [op |-> "_make_request", outcome |-> m.outcome,
                         slept |-> m.slept, found |-> Found(rl)]]
    /\ UNCHANGED <<sheet, archive, archiveExists, pc, cfg, csv, results, events,
                   upl, faults, pass, xp, env, handler, runner>>

NextLimiter ==
    \/ ClockAdvances
    \/ CanMakeRequest
    \/ MakeRequest

SpecLimiter == InitLimiter /\ [][NextLimiter]_vars

(***************************************************************************)
(* config.py and main.validate_configuration.  A setting read with         *)
(* os.getenv is <<>> when the variable is not set and <<value>> otherwise. *)
(***************************************************************************)
\* the values a credential can have in the environment: not set, empty, the
\* placeholder of the example file, a real value
EnvValues == {<<>>, <<"">>, <<"your_api_key_here">>, <<"k3y">>}

\* the values of PUBLISHER_TYPE
PublisherTypes == {"twitter", "Twitter", "x", "typefully"}

\* not var_value or var_value.startswith('your_')
MissingOrPlaceholder(v) ==
    v = <<>> \/ v[1] = "" \/ v[1] \in {"your_api_key_here"}

validate_x_api_config(e) ==
    IF Lower(e.PUBLISHER_TYPE) # "twitter" THEN TRUE
    ELSE LET required_x_vars ==
                 <<e.X_API_KEY, e.X_API_SECRET, e.X_ACCESS_TOKEN,
                   e.X_ACCESS_TOKEN_SECRET>>
             missing_x_vars ==
                 SelectSeq(required_x_vars, MissingOrPlaceholder)
         IN  missing_x_vars = <<>>

\* load_dotenv() and the module-level os.getenv calls of config.py
InitConfig ==
    /\ sheet = <<>>
    /\ archive = <<>>
    /\ archiveExists = FALSE
    /\ pc = "idle"
    /\ cfg = NoConfig
    /\ csv = <<>>
    /\ results = NoResults
    /\ events = <<>>
    /\ upl = NoUpload
    /\ faults = 0
    /\ pass = NoPass
    /\ rl = NoLimiter
    /\ xp = NoLimiter
    /\ \E publisher_type \in PublisherTypes :
       \E key \in EnvValues, secret \in EnvValues, token \in EnvValues,
          token_secret \in EnvValues :
          env = [loaded |-> TRUE, PUBLISHER_TYPE |-> publisher_type,
                 X_API_KEY |-> key, X_API_SECRET |-> secret,
                 X_ACCESS_TOKEN |-> token, X_ACCESS_TOKEN_SECRET |-> token_secret,
                 log |-> "none"]
    /\ handler = NoHandler
    /\ runner = NoRunner

\* the publisher check of main.validate_configuration, with the line it logs
ValidateConfiguration ==
    /\ env.loaded /\ env.log = "none"
    /\ \E publisher_type \in {Lower(env.PUBLISHER_TYPE)} :
          env' = [env EXCEPT !.log =
              IF publisher_type = "twitter" \/ publisher_type = "x"
              THEN IF validate_x_api_config(env)
                   THEN "X/Twitter publishing enabled"
                   ELSE "X/Twitter publishing disabled (missing credentials)"
              ELSE IF publisher_type = "typefully"
              THEN "Typefully publishing"
              ELSE "Publishing disabled (no publisher configured)"]
    /\ UNCHANGED <<sheet, archive, archiveExists, pc, cfg, csv, results, events,
                   upl, faults, pass, rl, xp, handler, runner>>

NextConfig == ValidateConfiguration

SpecConfig == InitConfig /\ [][NextConfig]_vars

(***************************************************************************)
(* PublishRateLimiter and TwitterAPIPublisher.publish (x_publisher.py).    *)
(* Time is counted in steps of five minutes, so the window of 15 minutes   *)
(* is three steps; window_posts holds the age of each timestamp in steps   *)
(* (ages of three and more are kept as three).  `today` counts the         *)
(* timestamps record_post wrote on the current date.                       *)
(***************************************************************************)
posts_per_day == 50
posts_per_15min == 5

\* timedelta(minutes=15) in steps
window_steps == 3

\* PublishRateLimiter.__init__
PublishRateLimiter(daily_limit, window_limit) ==
    [made |-> TRUE, daily_limit |-> daily_limit, window_limit |-> window_limit,
     daily_posts |-> 0, window_posts |-> <<>>, date_ahead |-> FALSE,
     today |-> 0, last |-> [op |-> "none"]]

\* the clock moves on by one step; `midnight` tells whether the date changes
LaterBy(r, midnight) ==
    [r EXCEPT !.window_posts =
                  [k \in 1..Len(@) |-> Min({@[k] + 1, window_steps})],
              !.date_ahead = @ \/ midnight,
              !.today = IF midnight THEN 0 ELSE @]

can_publish(r) ==
    LET reset == IF r.date_ahead
                 THEN [r EXCEPT !.daily_posts = 0, !.date_ahead = FALSE]
                 ELSE r
        pruned == [reset EXCEPT !.window_posts =
                      SelectSeq(@, LAMBDA age : age < window_steps)]
    IN  IF reset.daily_posts >= reset.daily_limit
        THEN [rl |-> reset, result |-> FALSE]
        ELSE IF Len(pruned.window_posts) >= pruned.window_limit
        THEN [rl |-> pruned, result |-> FALSE]
        ELSE [rl |-> pruned, result |-> TRUE]

record_post(r) ==
    [r EXCEPT !.daily_posts = @ + 1, !.window_posts = Append(@, 0),
              !.today = @ + 1]

\* PublishRateLimiter.wait_if_needed: what the wait is for, and its steps
publish_wait(r) ==
    IF can_publish(r).result THEN [until |-> "now", steps |-> 0]
    ELSE IF can_publish(r).rl.window_posts # <<>>
    THEN [until |-> "window",
          steps |-> window_steps - can_publish(r).rl.window_posts[1]]
    ELSE [until |-> "midnight", steps |-> 0]

\* TwitterAPIPublisher.publish: `valid` is validate_content, `api` what the
\* client calls do, `midnight` whether the date changes while the tweet is
\* submitted (between the check of the limits and record_post)
publish(r, valid, api, midnight) ==
    IF ~valid
    THEN [rl |-> r, success |-> FALSE, error_msg |-> "Content validation failed",
          submitted |-> FALSE, checked |-> FALSE, allowed |-> FALSE]
    ELSE IF ~can_publish(r).result
    THEN [rl |-> can_publish(r).rl, success |-> FALSE,
          error_msg |-> "Rate limited", wait |-> publish_wait(can_publish(r).rl),
          submitted |-> FALSE, checked |-> TRUE, allowed |-> FALSE]
    ELSE IF api # "ok"
    THEN [rl |-> can_publish(r).rl, success |-> FALSE, error_msg |-> api,
          submitted |-> api # "Authentication failed", checked |-> TRUE,
          allowed |-> TRUE]
    ELSE [rl |-> record_post(IF midnight THEN LaterBy(can_publish(r).rl, TRUE)
                             ELSE can_publish(r).rl),
          success |-> TRUE, error_msg |-> "", submitted |-> TRUE,
          checked |-> TRUE, allowed |-> TRUE]

InitPublisher ==
    /\ sheet = <<>>
    /\ archive = <<>>
    /\ archiveExists = FALSE
    /\ pc = "idle"
    /\ cfg = NoConfig
    /\ csv = <<>>
    /\ results = NoResults
    /\ events = <<>>
    /\ upl = NoUpload
    /\ faults = 0
    /\ pass = NoPass
    /\ rl = NoLimiter
    /\ xp = PublishRateLimiter(posts_per_day, posts_per_15min)
    /\ env = NoEnv
    /\ handler = NoHandler
    /\ runner = NoRunner

PublisherClockAdvances ==
    /\ \E midnight \in BOOLEAN :
          xp' = [LaterBy(xp, midnight) EXCEPT !.last = [op |-> "none"]]
    /\ UNCHANGED <<sheet, archive, archiveExists, pc, cfg, csv, results, events,
                   upl, faults, pass, rl, env, handler, runner>>

PublishContent ==
    /\ \E valid \in BOOLEAN, midnight \in BOOLEAN :
       \E api \in {"ok", "Authentication failed", "Failed to create tweet"} :
          \E p \in {publish(xp, valid, api, midnight)} :
              xp' = [p.rl EXCEPT !.last =
                        [op |-> "publish", success |-> p.success,
                         error_msg |-> p.error_msg, submitted |-> p.submitted,
                         checked |-> p.checked, allowed |-> p.allowed]]
    /\ UNCHANGED <<sheet, archive, archiveExists, pc, cfg, csv, results, events,
                   upl, faults, pass, rl, env, handler, runner>>

\* PublishRateLimiter.wait_if_needed: can_publish resets and prunes, then the
\* wait is computed; `live` counts the timestamps inside the window
WaitIfNeeded ==
    /\ \E c \in {can_publish(xp)} :
          xp' = [c.rl EXCEPT !.last =
                    [op |-> "wait_if_needed", can_publish |-> c.result,
                     daily_reached |-> c.rl.daily_posts >= c.rl.daily_limit,
                     live |-> Len(SelectSeq(c.rl.window_posts,
                                            LAMBDA age : age < window_steps)),
                     wait |-> publish_wait(xp)]]
    /\ UNCHANGED <<sheet, archive, archiveExists, pc, cfg, csv, results, events,
                   upl, faults, pass, rl, env, handler, runner>>

NextPublisher ==
    \/ PublisherClockAdvances
    \/ PublishContent
    \/ WaitIfNeeded

SpecPublisher == InitPublisher /\ [][NextPublisher]_vars

(***************************************************************************)
(* AsyncDiscordCollector.collect_to_csv with its DiscordHandler: the try   *)
(* block up to the statement that raises or returns, the finally block,    *)
(* and the return.                                                         *)
(***************************************************************************)
\* where the try block may raise
RaisePoints == {"none", "DiscordHandler", "connect", "fetch", "_save_to_csv"}

\* the handler and the pending return value when the try block is left;
\* connect() starts the bot before it waits for the ready flag
try_block(posts, raised_at) ==
    [at |-> "finally", left_at |-> raised_at,
     created |-> raised_at # "DiscordHandler",
     bot |-> IF raised_at = "DiscordHandler" THEN "none" ELSE "running",
     ready |-> raised_at \notin {"DiscordHandler", "connect"},
     disconnects |-> 0, warning |-> FALSE,
     posts |-> IF raised_at \in {"none", "_save_to_csv"} THEN posts ELSE <<>>,
     result |-> IF raised_at = "none" THEN collect_to_csv(posts, FALSE)
                ELSE <<>>]

\* DiscordHandler.disconnect; when bot.close() raises, the ready flag is not
\* cleared and the bot may still be running
disconnect(h, close_raises, still_running) ==
    IF h.bot = "none" THEN [h EXCEPT !.disconnects = @ + 1]
    ELSE IF close_raises
    THEN [h EXCEPT !.disconnects = @ + 1, !.warning = TRUE,
                   !.bot = IF still_running THEN @ ELSE "closed"]
    ELSE [h EXCEPT !.disconnects = @ + 1, !.bot = "closed", !.ready = FALSE]

\* a finally block that disconnects only a handler that became ready
finally_when_ready(h, close_raises, still_running) ==
    IF h.created /\ h.ready THEN disconnect(h, close_raises, still_running) ELSE h

\* the finally block of collect_to_csv
finally_block(h, close_raises, still_running) ==
    IF h.created THEN disconnect(h, close_raises, still_running) ELSE h

InitCollect ==
    /\ sheet = <<>>
    /\ archive = <<>>
    /\ archiveExists = FALSE
    /\ pc = "idle"
    /\ cfg = NoConfig
    /\ csv = <<>>
    /\ results = NoResults
    /\ events = <<>>
    /\ upl = NoUpload
    /\ faults = 0
    /\ pass = NoPass
    /\ rl = NoLimiter
    /\ xp = NoLimiter
    /\ env = NoEnv
    /\ handler = NoHandler
    /\ runner = NoRunner

CollectTry ==
    /\ handler.at \in {"none", "returned"}
    /\ \E posts \in Batches, raised_at \in RaisePoints :
          handler' = try_block(posts, raised_at)
    /\ UNCHANGED <<sheet, archive, archiveExists, pc, cfg, csv, results, events,
                   upl, faults, pass, rl, xp, env, runner>>

CollectFinally ==
    /\ handler.at = "finally"
    /\ \E close_raises \in BOOLEAN, still_running \in BOOLEAN :
          handler' = [finally_block(handler, close_raises, still_running)
                         EXCEPT !.at = "return"]
    /\ UNCHANGED <<sheet, archive, archiveExists, pc, cfg, csv, results, events,
                   upl, faults, pass, rl, xp, env, runner>>

CollectReturns ==
    /\ handler.at = "return"
    /\ handler' = [handler EXCEPT !.at = "returned"]
    /\ csv' = handler.result
    /\ UNCHANGED <<sheet, archive, archiveExists, pc, cfg, results, events, upl,
                   faults, pass, rl, xp, env, runner>>

NextCollect ==
    \/ CollectTry
    \/ CollectFinally
    \/ CollectReturns

SpecCollect == InitCollect /\ [][NextCollect]_vars

(***************************************************************************)
(* main() and ScheduledTaskRunner: the manual run and the daemon loop of   *)
(* start(), around the phases of run_complete_pipeline above.              *)
(***************************************************************************)
\* a handler that ends the process at once, as the default handlers do
_signal_handler_exits(r) ==
    [r EXCEPT !.shutdown = TRUE, !.at = "exited", !.status = 1,
              !.caught = IF r.shutdown THEN @ ELSE r.at]

\* ScheduledTaskRunner._signal_handler; `caught` keeps where the first signal
\* found the process
_signal_handler(r) ==
    [r EXCEPT !.shutdown = TRUE, !.caught = IF r.shutdown THEN @ ELSE r.at]

\* main() was started with --manual or --daemon
InitRunner ==
    /\ sheet = <<>>
    /\ archive = <<>>
    /\ archiveExists = FALSE
    /\ pc = "idle"
    /\ cfg = NoConfig
    /\ csv = <<>>
    /\ results = NoResults
    /\ events = <<>>
    /\ upl = NoUpload
    /\ faults = 0
    /\ pass = NoPass
    /\ rl = NoLimiter
    /\ xp = NoLimiter
    /\ env = NoEnv
    /\ handler = NoHandler
    /\ \E mode \in {"manual", "daemon"} :
          runner = [NoRunner EXCEPT !.mode = mode, !.at = "main"]

\* main() up to the call of run_manual() or start(): validate_configuration
\* and the constructor, which installs the signal handlers
MainStarts ==
    /\ runner.at = "main"
    /\ \E valid \in BOOLEAN :
          runner' = IF valid THEN [runner EXCEPT !.at = "init"]
                    ELSE [runner EXCEPT !.at = "exited", !.status = 1,
                                        !.last = "invalid"]
    /\ UNCHANGED <<sheet, archive, archiveExists, pc, cfg, csv, results, events,
                   upl, faults, pass, rl, xp, env, handler>>

\* initialize_components at the start of run_manual() and of start()
InitializeComponents ==
    /\ runner.at = "init"
    /\ \E initialized \in BOOLEAN :
          runner' =
              IF initialized
              THEN [runner EXCEPT !.at = IF runner.mode = "manual" THEN "job"
                                         ELSE "loop"]
              ELSE [runner EXCEPT !.at = "exited", !.last = "not initialized",
                        !.status = IF runner.mode = "manual" THEN 1 ELSE 0]
    /\ UNCHANGED <<sheet, archive, archiveExists, pc, cfg, csv, results, events,
                   upl, faults, pass, rl, xp, env, handler>>

\* while not self._shutdown
LoopTest ==
    /\ runner.at = "loop"
    /\ runner' = IF runner.shutdown
                 THEN [runner EXCEPT !.at = "exited", !.status = 0]
                 ELSE [runner EXCEPT !.at = "pending"]
    /\ UNCHANGED <<sheet, archive, archiveExists, pc, cfg, csv, results, events,
                   upl, faults, pass, rl, xp, env, handler>>

\* schedule.run_pending(): the job is due and is run, or it is not due, or
\* the call raises and the loop logs the error
RunPending(outcome) ==
    /\ runner.at = "pending"
    /\ runner' = CASE outcome = "due" -> [runner EXCEPT !.at = "job"]
                   [] outcome = "not due" -> [runner EXCEPT !.at = "sleep"]
                   [] outcome = "raises" ->
                        [runner EXCEPT !.at = "loop", !.last = "raised"]
    /\ UNCHANGED <<sheet, archive, archiveExists, pc, cfg, csv, results, events,
                   upl, faults, pass, rl, xp, env, handler>>

\* time.sleep(60)
Sleep ==
    /\ runner.at = "sleep"
    /\ runner' = [runner EXCEPT !.at = "loop"]
    /\ UNCHANGED <<sheet, archive, archiveExists, pc, cfg, csv, results, events,
                   upl, faults, pass, rl, xp, env, handler>>

\* SIGINT or SIGTERM arrives
Signal ==
    /\ runner.at \notin {"off", "main", "exited"}
    /\ ~runner.shutdown
    /\ runner' = _signal_handler(runner)
    /\ UNCHANGED <<sheet, archive, archiveExists, pc, cfg, csv, results, events,
                   upl, faults, pass, rl, xp, env, handler>>

\* the steps of main() and of the loop of start() outside the cycle
LoopSteps ==
    \/ MainStarts
    \/ InitializeComponents
    \/ LoopTest
    \/ RunPending("due")
    \/ RunPending("not due")
    \/ RunPending("raises")
    \/ Sleep

NextRunner ==
    \/ LoopSteps
    \/ Collect
    \/ Upload(BOOLEAN)
    \/ Analysis
    \/ Publish
    \/ Archive
    \/ Return
    \/ Signal

\* main() and the loop keep running, and the scheduled time comes every day
SpecRunner ==
    /\ InitRunner
    /\ [][NextRunner]_vars
    /\ WF_vars(LoopSteps)
    /\ SF_vars(RunPending("due"))

(***************************************************************************)
(* DiscordHandler (modules/discord_handler.py): connect() with its polling *)
(* loop, the on_ready event of the bot, disconnect(), and the two fetch    *)
(* methods.  `last` records the call that finished last; retry_count is    *)
(* the local counter of connect().                                         *)
(***************************************************************************)
connect_polls == 30
MaxRetries == 3
MaxConnects == 2
MaxDisconnects == 2

NoCall == [op |-> "none", outcome |-> "none"]

\* DiscordHandler.__init__
DiscordHandler ==
    [at |-> "idle", bot |-> "none", ready |-> FALSE, retry_count |-> 0,
     connects |-> 0, disconnects |-> 0, warning |-> FALSE,
     disconnected |-> FALSE, last |-> NoCall]

\* what channel.history yields, by kind of message
Histories == {<<"tweet", "chat">>}

\* what one call of the channel can do: yield its history, fail with a
\* discord.HTTPException, or get_channel finds no channel
Replies ==
    {[kind |-> "messages", messages |-> m] : m \in Histories}
    \cup {[kind |-> "HTTPException", messages |-> <<>>],
          [kind |-> "no channel", messages |-> <<>>]}

\* TWITTER_URL_PATTERN.search(message.content)
filter_twitter_messages(messages) ==
    SelectSeq(messages, LAMBDA message : message = "tweet")

\* a fetch that reads the channel whatever the ready flag says
fetch_unguarded(h, reply) ==
    IF reply.kind = "no channel"
    THEN [outcome |-> "ValueError", contacted |-> FALSE, messages |-> <<>>]
    ELSE IF reply.kind = "HTTPException"
    THEN [outcome |-> "HTTPException", contacted |-> TRUE, messages |-> <<>>]
    ELSE [outcome |-> "returned", contacted |-> TRUE, messages |-> reply.messages]

\* a retry that waits the same time again
same_backoff(backoff_seconds) == backoff_seconds

\* a connect() that returns after the last poll whatever the ready flag says
connect_gives_up_quietly(h) ==
    IF ~h.ready /\ h.retry_count < connect_polls
    THEN [h EXCEPT !.retry_count = @ + 1]
    ELSE [h EXCEPT !.at = "idle", !.retry_count = 0,
                   !.last = [op |-> "connect", outcome |-> "returned",
                             polls |-> h.retry_count]]

\* fetch_channel_messages: the guard on the ready flag, get_channel, and
\* the read of channel.history
fetch_channel_messages(h, reply) ==
    IF ~h.ready
    THEN [outcome |-> "RuntimeError", contacted |-> FALSE, messages |-> <<>>]
    ELSE IF reply.kind = "no channel"
    THEN [outcome |-> "ValueError", contacted |-> FALSE, messages |-> <<>>]
    ELSE IF reply.kind = "HTTPException"
    THEN [outcome |-> "HTTPException", contacted |-> TRUE, messages |-> <<>>]
    ELSE [outcome |-> "returned", contacted |-> TRUE, messages |-> reply.messages]

\* backoff_seconds *= 2
next_backoff(backoff_seconds) == backoff_seconds * 2

\* the while loop of fetch_twitter_posts_with_retry from one test of its
\* condition on; script[k] is what the channel does in attempt k
RECURSIVE Retry(_, _, _, _, _, _)
Retry(h, script, retries, retry_count, backoff_seconds, sleeps) ==
    IF retry_count > retries
    THEN [outcome |-> "returned", attempts |-> retry_count, sleeps |-> sleeps,
          posts |-> <<>>, contacted |-> retry_count > 0]
    ELSE LET f == fetch_channel_messages(h, script[retry_count + 1])
         IN  IF f.outcome = "returned"
             THEN [outcome |-> "returned", attempts |-> retry_count + 1,
                   sleeps |-> sleeps,
                   posts |-> filter_twitter_messages(f.messages),
                   contacted |-> TRUE]
             ELSE IF f.outcome = "HTTPException"
             THEN IF retry_count + 1 > retries
                  THEN [outcome |-> "HTTPException", attempts |-> retry_count + 1,
                        sleeps |-> sleeps, posts |-> <<>>, contacted |-> TRUE]
                  ELSE Retry(h, script, retries, retry_count + 1,
                             next_backoff(backoff_seconds),
                             Append(sleeps, backoff_seconds))
             ELSE [outcome |-> f.outcome, attempts |-> retry_count + 1,
                   sleeps |-> sleeps, posts |-> <<>>,
                   contacted |-> f.contacted \/ retry_count > 0]

fetch_twitter_posts_with_retry(h, script, retries) ==
    Retry(h, script, retries, 0, 1, <<>>)

\* one test of `while not self._ready and retry_count < 30` with the sleep
\* of one second that follows it, or the end of connect() after the loop
connect_poll(h) ==
    IF ~h.ready /\ h.retry_count < connect_polls
    THEN [h EXCEPT !.retry_count = @ + 1]
    ELSE [h EXCEPT !.at = "idle", !.retry_count = 0,
                   !.last = [op |-> "connect",
                             outcome |-> IF ~h.ready THEN "TimeoutError"
                                         ELSE "returned",
                             polls |-> h.retry_count]]

InitDiscord ==
    /\ sheet = <<>>
    /\ archive = <<>>
    /\ archiveExists = FALSE
    /\ pc = "idle"
    /\ cfg = NoConfig
    /\ csv = <<>>
    /\ results = NoResults
    /\ events = <<>>
    /\ upl = NoUpload
    /\ faults = 0
    /\ pass = NoPass
    /\ rl = NoLimiter
    /\ xp = NoLimiter
    /\ env = NoEnv
    /\ handler = DiscordHandler
    /\ runner = NoRunner

\* connect() up to the polling loop: initialize_bot when there is no bot
\* yet, and the task that starts the bot; a bot that was closed may or may
\* not start again
Connect ==
    /\ handler.at = "idle"
    /\ handler.connects < MaxConnects
    /\ \E starts \in BOOLEAN :
          handler' = [handler EXCEPT
                         !.at = "connect",
                         !.bot = IF @ = "closed" /\ ~starts THEN @ ELSE "running",
                         !.retry_count = 0,
                         !.last = NoCall,
                         !.connects = @ + 1,
                         !.disconnected = FALSE]
    /\ UNCHANGED <<sheet, archive, archiveExists, pc, cfg, csv, results, events,
                   upl, faults, pass, rl, xp, env, runner>>

\* connect() between two awaits of its polling loop
ConnectPoll ==
    /\ handler.at = "connect"
    /\ handler' = connect_poll(handler)
    /\ UNCHANGED <<sheet, archive, archiveExists, pc, cfg, csv, results, events,
                   upl, faults, pass, rl, xp, env, runner>>

\* the on_ready event of a running bot
OnReady ==
    /\ handler.at \in {"idle", "connect"}
    /\ handler.bot = "running"
    /\ ~handler.ready
    /\ handler' = [handler EXCEPT !.ready = TRUE]
    /\ UNCHANGED <<sheet, archive, archiveExists, pc, cfg, csv, results, events,
                   upl, faults, pass, rl, xp, env, runner>>

\* a call of disconnect()
Disconnect ==
    /\ handler.at = "idle"
    /\ handler.disconnects < MaxDisconnects
    /\ \E close_raises \in BOOLEAN, still_running \in BOOLEAN :
       \E h \in {disconnect([handler EXCEPT !.warning = FALSE], close_raises,
                            still_running)} :
          handler' = [h EXCEPT
                         !.disconnected = ~h.warning,
                         !.last = [op |-> "disconnect",
                                   outcome |-> IF h.warning THEN "raised"
                                               ELSE "returned",
                                   connects |-> handler.connects,
                                   noop |-> h.bot = handler.bot
                                            /\ h.ready = handler.ready
                                            /\ handler.bot = "none"]]
    /\ UNCHANGED <<sheet, archive, archiveExists, pc, cfg, csv, results, events,
                   upl, faults, pass, rl, xp, env, runner>>

\* a call of fetch_channel_messages
FetchChannelMessages ==
    /\ handler.at = "idle"
    /\ \E reply \in Replies :
       \E f \in {fetch_channel_messages(handler, reply)} :
          handler' = [handler EXCEPT
                         !.last = [op |-> "fetch_channel_messages",
                                   outcome |-> f.outcome,
                                   contacted |-> f.contacted,
                                   ready |-> handler.ready,
                                   disconnected |-> handler.disconnected,
                                   connects |-> handler.connects]]
    /\ UNCHANGED <<sheet, archive, archiveExists, pc, cfg, csv, results, events,
                   upl, faults, pass, rl, xp, env, runner>>

\* a call of fetch_twitter_posts_with_retry(max_retries=retries)
FetchWithRetry ==
    /\ handler.at = "idle"
    /\ \E retries \in 0..MaxRetries :
       \E script \in [1..retries + 1 -> Replies] :
       \E r \in {fetch_twitter_posts_with_retry(handler, script, retries)} :
          handler' = [handler EXCEPT
                         !.last = [op |-> "fetch_twitter_posts_with_retry",
                                   outcome |-> r.outcome,
                                   attempts |-> r.attempts,
                                   sleeps |-> r.sleeps,
                                   posts |-> r.posts,
                                   contacted |-> r.contacted,
                                   ready |-> handler.ready,
                                   script |-> script,
                                   max_retries |-> retries]]
    /\ UNCHANGED <<sheet, archive, archiveExists, pc, cfg, csv, results, events,
                   upl, faults, pass, rl, xp, env, runner>>

NextDiscord ==
    \/ Connect
    \/ ConnectPoll
    \/ OnReady
    \/ Disconnect
    \/ FetchChannelMessages
    \/ FetchWithRetry

\* the event loop keeps running connect()
SpecDiscord == InitDiscord /\ [][NextDiscord]_vars /\ WF_vars(ConnectPoll)

(***************************************************************************)
(* GoogleSheetsHandler (modules/sheets_handler.py): _execute_with_retry on *)
(* a request whose attempts do what a script says, and clear_sheet on the  *)
(* working tab.                                                            *)
(***************************************************************************)
MAX_RETRIES == 3
RETRY_DELAY == 1

\* what request.execute() can do in one attempt: return the response, raise
\* HttpError with status 429 or 500, or raise another exception
Executions == {"response", "HttpError 429", "HttpError 500", "Exception"}

\* a handler that retries after every HttpError
retries_every_http_error(outcome, attempt) ==
    outcome \in {"HttpError 429", "HttpError 500"} /\ attempt < MAX_RETRIES - 1

\* e.resp.status == 429 and attempt < self.MAX_RETRIES - 1
retries_rate_limit(outcome, attempt) ==
    outcome = "HttpError 429" /\ attempt < MAX_RETRIES - 1

\* the for loop of _execute_with_retry from attempt `attempt` on; script[k]
\* is what request.execute() does in attempt k, counted from 1
RECURSIVE ExecuteFrom(_, _, _, _)
ExecuteFrom(script, attempt, delay, sleeps) ==
    IF attempt >= MAX_RETRIES
    THEN [outcome |-> "Exception", attempts |-> attempt, sleeps |-> sleeps,
          response |-> 0]
    ELSE IF script[attempt + 1] = "response"
    THEN [outcome |-> "returned", attempts |-> attempt + 1, sleeps |-> sleeps,
          response |-> attempt + 1]
    ELSE IF retries_rate_limit(script[attempt + 1], attempt)
    THEN ExecuteFrom(script, attempt + 1, delay * 2, Append(sleeps, delay))
    ELSE [outcome |-> script[attempt + 1], attempts |-> attempt + 1,
          sleeps |-> sleeps, response |-> 0]

_execute_with_retry(script) == ExecuteFrom(script, 0, RETRY_DELAY, <<>>)

\* the cells a tab may hold in this part
SheetCells == {"", "A", "B"}

\* the rows a tab may hold, as values().get returns them
SheetRowPool ==
    {TrimRow(row) : row \in UNION {[1..n -> SheetCells] : n \in 0..MaxRows}}

\* the tabs clear_sheet may be called on
SheetPool ==
    {TrimRows(rows) : rows \in UNION {[1..n -> SheetRowPool] : n \in 0..MaxRows}}

SheetCalls == {"none", "get", "clear", "update"}

\* a clear_sheet that restores nothing
clear_everything(sh, preserve_headers, fail) ==
    IF fail \in {"get", "clear"}
    THEN [sheet |-> sh, raised |-> TRUE]
    ELSE [sheet |-> <<>>, raised |-> FALSE]

\* clear_sheet: values().get of "<tab>!1:1", values().clear of the tab and
\* values().update at A1 with the headers that were read
clear_sheet(sh, preserve_headers, fail) ==
    LET headers == IF sh # <<>> /\ TrimRow(sh[1]) # <<>> THEN TrimRow(sh[1])
                   ELSE <<>>
    IN  IF preserve_headers
        THEN IF fail = "get" \/ fail = "clear"
             THEN [sheet |-> sh, raised |-> TRUE]
             ELSE IF headers = <<>>
             THEN [sheet |-> <<>>, raised |-> FALSE]
             ELSE IF fail = "update"
             THEN [sheet |-> <<>>, raised |-> TRUE]
             ELSE [sheet |-> UpdateAt(<<>>, 1, <<headers>>), raised |-> FALSE]
        ELSE IF fail = "clear"
             THEN [sheet |-> sh, raised |-> TRUE]
             ELSE [sheet |-> <<>>, raised |-> FALSE]

InitSheets ==
    /\ sheet \in SheetPool
    /\ archive = <<>>
    /\ archiveExists = FALSE
    /\ pc = "idle"
    /\ cfg = NoConfig
    /\ csv = <<>>
    /\ results = NoResults
    /\ events = <<>>
    /\ upl = NoUpload
    /\ faults = 0
    /\ pass = NoPass
    /\ rl = NoLimiter
    /\ xp = NoLimiter
    /\ env = NoEnv
    /\ handler = NoHandler
    /\ runner = NoRunner

\* a call of _execute_with_retry(request)
ExecuteWithRetry ==
    /\ \E script \in [1..MAX_RETRIES -> Executions] :
       \E r \in {_execute_with_retry(script)} :
          pass' = [call |-> "_execute_with_retry", script |-> script,
                   outcome |-> r.outcome, attempts |-> r.attempts,
                   sleeps |-> r.sleeps, response |-> r.response]
    /\ UNCHANGED <<sheet, archive, archiveExists, pc, cfg, csv, results, events,
                   upl, faults, rl, xp, env, handler, runner>>

\* a call of clear_sheet(sheet_name, preserve_headers)
ClearSheet ==
    /\ \E preserve_headers \in BOOLEAN, fail \in SheetCalls :
       \E r \in {clear_sheet(sheet, preserve_headers, fail)} :
          /\ sheet' = r.sheet
          /\ pass' = [call |-> "clear_sheet",
                      preserve_headers |-> preserve_headers,
                      before |-> sheet, raised |-> r.raised]
    /\ UNCHANGED <<archive, archiveExists, pc, cfg, csv, results, events, upl,
                   faults, rl, xp, env, handler, runner>>

NextSheets ==
    \/ ExecuteWithRetry
    \/ ClearSheet

SpecSheets == InitSheets /\ [][NextSheets]_vars

(***************************************************************************)
(* GeminiAnalyzer with its RateLimitManager: is_new_project,               *)
(* analyze_single_row and create_daily_draft called on their own.  The     *)
(* replies are what generate_content does; _make_request decides whether   *)
(* the service is asked at all.                                            *)
(***************************************************************************)
MaxAnalyzerLimit == 2       \* largest GEMINI_DAILY_LIMIT of this part
MaxSummaries == 3           \* summaries one draft is made of

\* what the caller of _make_request gets: the response, or the exception
Answer(m, reply) == IF m.outcome = "response" THEN reply ELSE Raised(m.outcome)

\* the contents is_new_project is called with
DetectContents ==
    {"", "   ", "gm", "  gm      ", "Launch of protocol A", "Price talk about B"}

\* what generate_content does with the classification prompt
DetectReplies ==
    {Ok("YES"), Ok(" yes "), Ok("NO"), Ok("YES."), Raised("RATE_LIMITED")}

\* is_new_project with the limiter of the analyzer: the length guard, then
\* one _make_request
DetectCall(r, content, reply, midnight) ==
    IF content = "" \/ Len(Strip(content)) < 10
    THEN [rl |-> r, asked |-> FALSE, calls |-> 0, reply |-> reply,
          result |-> is_new_project(content, reply)]
    ELSE LET m == _make_request(r, reply, midnight)
         IN  [rl |-> m.rl, asked |-> TRUE,
              calls |-> IF m.outcome = "Daily rate limit reached" THEN 0 ELSE 1,
              reply |-> Answer(m, reply),
              result |-> is_new_project(content, Answer(m, reply))]

\* the scripts analyze_single_row is called with
RowScripts ==
    [detect : {Ok("YES"), Ok("NO"), Raised("RATE_LIMITED")},
     extract : {Ok(InfoReply), Raised("RATE_LIMITED")},
     generate : {Ok("Lending protocol"), Raised("RATE_LIMITED")}]

\* the prompts analyze_single_row makes for a row, what _make_request gave
\* for each of them, and the limiter afterwards
PromptsFrom(r, content, script, d, e, g) ==
    IF content = "" THEN [rl |-> r, script |-> script, made |-> {}]
    ELSE IF ~d.result
    THEN [rl |-> d.rl, script |-> [script EXCEPT !.detect = d.reply],
          made |-> IF d.asked THEN {"detect"} ELSE {}]
    ELSE IF ~extract_project_info(content, Answer(e, script.extract)).found
    THEN [rl |-> e.rl,
          script |-> [script EXCEPT !.detect = d.reply,
                                    !.extract = Answer(e, script.extract)],
          made |-> {"detect", "extract"}]
    ELSE [rl |-> g.rl,
          script |-> [detect |-> d.reply,
                      extract |-> Answer(e, script.extract),
                      generate |-> Answer(g, script.generate)],
          made |-> {"detect", "extract", "generate"}]

AfterExtract(r, content, script, midnight, d, e) ==
    PromptsFrom(r, content, script, d, e,
                _make_request(e.rl, script.generate, midnight))

AfterDetect(r, content, script, midnight, d) ==
    AfterExtract(r, content, script, midnight, d,
                 _make_request(d.rl, script.extract, midnight))

Prompts(r, content, script, midnight) ==
    AfterDetect(r, content, script, midnight,
                DetectCall(r, content, script.detect, midnight))

\* the ProjectSummary objects a draft may be made of
SummaryPool ==
    [found : {TRUE}, date : {"2024-01-01", "2024-01-02"},
     username : {"proj", "dex"},
     ai_summary : {"Lending protocol", "NFT art"},
     row_index : {2}]

InitGemini ==
    /\ sheet = <<>>
    /\ archive = <<>>
    /\ archiveExists = FALSE
    /\ pc = "idle"
    /\ cfg = NoConfig
    /\ csv = <<>>
    /\ results = NoResults
    /\ events = <<>>
    /\ upl = NoUpload
    /\ faults = 0
    /\ pass = NoPass
    /\ rl \in {RateLimitManager(daily_limit) : daily_limit \in 1..MaxAnalyzerLimit}
    /\ xp = NoLimiter
    /\ env = NoEnv
    /\ handler = NoHandler
    /\ runner = NoRunner

\* a call of is_new_project(content)
IsNewProject ==
    /\ \E content \in DetectContents, reply \in DetectReplies, midnight \in BOOLEAN :
       \E d \in {DetectCall(rl, content, reply, midnight)} :
          /\ rl' = d.rl
          /\ pass' = [call |-> "is_new_project", content |-> content,
                      generated |-> reply, calls |-> d.calls,
                      result |-> d.result, before |-> rl,
                      after |-> d.rl]
    /\ UNCHANGED <<sheet, archive, archiveExists, pc, cfg, csv, results, events,
                   upl, faults, xp, env, handler, runner>>

\* a call of analyze_single_row(row_idx, post_data)
AnalyzeSingleRow ==
    /\ \E content \in {"", "Launch of protocol A"}, script \in RowScripts,
          midnight \in BOOLEAN :
       \E a \in {Prompts(rl, content, script, midnight)} :
          /\ rl' = a.rl
          /\ pass' = [call |-> "analyze_single_row", content |-> content,
                      script |-> a.script, made |-> a.made,
                      out |-> analyze_single_row(2,
                                  [content |-> content, post_link |-> "",
                                   date |-> "2024-01-01"], a.script)]
    /\ UNCHANGED <<sheet, archive, archiveExists, pc, cfg, csv, results, events,
                   upl, faults, xp, env, handler, runner>>

\* a call of create_daily_draft(summaries)
CreateDailyDraft ==
    /\ \E summaries \in UNION {[1..n -> SummaryPool] : n \in 0..MaxSummaries} :
          pass' = [call |-> "create_daily_draft", summaries |-> summaries,
                   draft_lines |->
                       DraftLines({summaries[i].date : i \in 1..Len(summaries)},
                                  summaries),
                   draft |-> create_daily_draft(summaries)]
    /\ UNCHANGED <<sheet, archive, archiveExists, pc, cfg, csv, results, events,
                   upl, faults, rl, xp, env, handler, runner>>

\* time passes between two calls
AnalyzerClockAdvances ==
    /\ \E step \in {"30s", "midnight", "day"} : rl' = ClockAfter(rl, step)
    /\ UNCHANGED <<sheet, archive, archiveExists, pc, cfg, csv, results, events,
                   upl, faults, pass, xp, env, handler, runner>>

NextGemini ==
    \/ IsNewProject
    \/ AnalyzeSingleRow
    \/ AnalyzerClockAdvances

SpecGemini == InitGemini /\ [][NextGemini]_vars

\* create_daily_draft on its own: it reads no state of the analyzer
NextDraft == CreateDailyDraft

SpecDraft == Init /\ [][NextDraft]_vars

(***************************************************************************)
(* GoogleSheetsHandler.batch_append_data: the append_data calls and the    *)
(* sleeps it makes, in order.  `fail_at` numbers the append_data call that *)
(* raises, 0 if none does.                                                 *)
(***************************************************************************)
MaxBatchRows == 4       \* rows one batch_append_data call is given
MaxBatchSize == 3       \* largest batch_size

\* time.sleep(0.5), in milliseconds
batch_pause_ms == 500

BatchRowPool == {<<"A">>, <<"B">>}

\* a loop that sleeps after every chunk
pause_after_every_chunk(i, batch_size, total_rows) == TRUE

\* the test before the sleep
pause_due(i, batch_size, total_rows) == i + batch_size < total_rows

NoBatches == [sheet |-> <<>>, trace |-> <<>>, calls |-> 0, raised |-> FALSE]

\* the loop from index i on
RECURSIVE BatchFrom(_, _, _, _, _)
BatchFrom(data, i, batch_size, fail_at, acc) ==
    IF i >= Len(data) THEN acc
    ELSE IF acc.calls + 1 = fail_at
    THEN [acc EXCEPT !.calls = @ + 1, !.raised = TRUE]
    ELSE BatchFrom(data, i + batch_size, batch_size, fail_at,
             [sheet |-> AppendRows(acc.sheet,
                            SubSeq(data, i + 1, Min({i + batch_size, Len(data)}))),
              trace |-> acc.trace
                  \o <<[op |-> "append_data", ms |-> 0,
                        batch |-> SubSeq(data, i + 1,
                                         Min({i + batch_size, Len(data)}))]>>
                  \o (IF pause_due(i, batch_size, Len(data))
                      THEN <<[op |-> "sleep", ms |-> batch_pause_ms,
                              batch |-> <<>>]>>
                      ELSE <<>>),
              calls |-> acc.calls + 1,
              raised |-> FALSE])

batch_append_data(sh, data, batch_size, fail_at) ==
    BatchFrom(data, 0, batch_size, fail_at, [NoBatches EXCEPT !.sheet = sh])

InitBatch ==
    /\ sheet \in {<<>>, <<<<"A">>>>}
    /\ archive = <<>>
    /\ archiveExists = FALSE
    /\ pc = "idle"
    /\ cfg = NoConfig
    /\ csv = <<>>
    /\ results = NoResults
    /\ events = <<>>
    /\ upl = NoUpload
    /\ faults = 0
    /\ pass = NoPass
    /\ rl = NoLimiter
    /\ xp = NoLimiter
    /\ env = NoEnv
    /\ handler = NoHandler
    /\ runner = NoRunner

\* a call of batch_append_data(data, sheet_name, batch_size)
BatchAppendData ==
    /\ Len(sheet) <= MaxBatchRows
    /\ \E data \in UNION {[1..n -> BatchRowPool] : n \in 0..MaxBatchRows},
          batch_size \in 1..MaxBatchSize, fail_at \in 0..2 :
       \E r \in {batch_append_data(sheet, data, batch_size, fail_at)} :
          /\ sheet' = r.sheet
          /\ pass' = [call |-> "batch_append_data", data |-> data,
                      batch_size |-> batch_size, trace |-> r.trace,
                      raised |-> r.raised]
    /\ UNCHANGED <<archive, archiveExists, pc, cfg, csv, results, events, upl,
                   faults, rl, xp, env, handler, runner>>

NextBatch == BatchAppendData

SpecBatch == InitBatch /\ [][NextBatch]_vars

(***************************************************************************)
(* TwitterAPIPublisher._split_into_tweets (x_publisher.py).  A string is   *)
(* the sequence of its characters, so that len(), split(), strip() and the *)
(* slices are computed on the text itself.                                 *)
(***************************************************************************)
MaxLines == 2           \* lines of one content
MaxSentences == 2       \* sentences of one line

\* the lengths a sentence may have
SentenceLengths == {4, 13, 26}

\* the max_length values of the calls; the code's default is 280
TweetLengths == {20, 24}

Text(n) == [k \in 1..n |-> "a"]

Ellipsis == <<".", ".", ".">>

\* str.join
RECURSIVE JoinText(_, _)
JoinText(parts, sep) ==
    IF parts = <<>> THEN <<>>
    ELSE IF Len(parts) = 1 THEN parts[1]
    ELSE parts[1] \o sep \o JoinText(Tail(parts), sep)

\* 1-based position of the first occurrence of sep in s, 0 if there is none
FirstAt(s, sep) ==
    IF \E i \in 1..(Len(s) - Len(sep) + 1) : SubSeq(s, i, i + Len(sep) - 1) = sep
    THEN Min({i \in 1..(Len(s) - Len(sep) + 1) :
                 SubSeq(s, i, i + Len(sep) - 1) = sep})
    ELSE 0

\* str.split(sep)
RECURSIVE SplitText(_, _)
SplitAt(s, sep, i) ==
    IF i = 0 THEN <<s>>
    ELSE <<SubSeq(s, 1, i - 1)>>
         \o SplitText(SubSeq(s, i + Len(sep), Len(s)), sep)

SplitText(s, sep) == SplitAt(s, sep, FirstAt(s, sep))

\* str.strip()
StripText(s) ==
    IF \A i \in 1..Len(s) : s[i] \in {" ", "\n"} THEN <<>>
    ELSE SubSeq(s, Min({i \in 1..Len(s) : s[i] \notin {" ", "\n"}}),
                   Max({i \in 1..Len(s) : s[i] \notin {" ", "\n"}}))

\* s[:n]
Slice(s, n) ==
    IF n >= 0 THEN SubSeq(s, 1, Min({n, Len(s)}))
    ELSE SubSeq(s, 1, Len(s) + n)

Digit(n) ==
    CASE n = 1 -> "1" [] n = 2 -> "2" [] n = 3 -> "3" [] n = 4 -> "4"
      [] n = 5 -> "5" [] n = 6 -> "6" [] n = 7 -> "7" [] n = 8 -> "8"
      [] OTHER -> "9"

\* f"({i}/{len(tweets)}) "
thread_prefix(i, n) == <<"(", Digit(i), "/", Digit(n), ")", " ">>

\* the loop over the sentences of a line that is too long
RECURSIVE SentencesFrom(_, _, _, _)
SentencesFrom(sentences, k, max_length, st) ==
    IF k > Len(sentences) THEN st
    ELSE SentencesFrom(sentences, k + 1, max_length,
            IF Len(st.current_tweet) + Len(sentences[k]) + 2 <= max_length - 10
            THEN [st EXCEPT !.current_tweet = @ \o sentences[k] \o <<".", " ">>]
            ELSE [tweets |-> IF st.current_tweet # <<>>
                             THEN Append(st.tweets,
                                         StripText(st.current_tweet) \o Ellipsis)
                             ELSE st.tweets,
                  current_tweet |-> Ellipsis \o sentences[k] \o <<".", " ">>])

\* a line that is short enough is added to the current tweet or begins a
\* new one
AddLine(line, max_length, st, test_tweet) ==
    IF Len(test_tweet) <= max_length - 10
    THEN [st EXCEPT !.current_tweet = test_tweet]
    ELSE [tweets |-> IF st.current_tweet # <<>>
                     THEN Append(st.tweets, st.current_tweet \o Ellipsis)
                     ELSE st.tweets,
          current_tweet |-> Ellipsis \o line]

\* the loop over the lines
RECURSIVE LinesFrom(_, _, _, _)
LinesFrom(lines, k, max_length, st) ==
    IF k > Len(lines) THEN st
    ELSE LinesFrom(lines, k + 1, max_length,
            IF Len(lines[k]) > max_length - 10
            THEN SentencesFrom(SplitText(lines[k], <<".", " ">>), 1, max_length, st)
            ELSE AddLine(lines[k], max_length, st,
                         IF st.current_tweet # <<>>
                         THEN st.current_tweet \o <<"\n">> \o lines[k]
                         ELSE lines[k]))

\* the thread numbering of tweet i of n
Numbered(tweet, i, n, max_length) ==
    thread_prefix(i, n)
    \o (IF Len(tweet) > max_length - Len(thread_prefix(i, n))
        THEN Slice(tweet, max_length - Len(thread_prefix(i, n)) - 3) \o Ellipsis
        ELSE tweet)

\* the tweets with the remaining content added, numbered when they are a
\* thread
Finished(st, max_length) ==
    IF Len(st.tweets) + (IF st.current_tweet # <<>> THEN 1 ELSE 0) > 1
    THEN [i \in 1..(Len(st.tweets) + (IF st.current_tweet # <<>> THEN 1 ELSE 0)) |->
             Numbered((st.tweets \o <<st.current_tweet>>)[i], i,
                      Len(st.tweets) + (IF st.current_tweet # <<>> THEN 1 ELSE 0),
                      max_length)]
    ELSE IF st.current_tweet # <<>> THEN Append(st.tweets, st.current_tweet)
    ELSE st.tweets

_split_into_tweets(content, max_length) ==
    IF Len(content) <= max_length THEN <<content>>
    ELSE Finished(LinesFrom(SplitText(content, <<"\n">>), 1, max_length,
                            [tweets |-> <<>>, current_tweet |-> <<>>]),
                  max_length)

\* the lines and the contents of the calls
LinePool ==
    {JoinText([k \in 1..Len(lengths) |-> Text(lengths[k])], <<".", " ">>) :
        lengths \in UNION {[1..n -> SentenceLengths] : n \in 1..MaxSentences}}

ContentPool ==
    {JoinText(lines, <<"\n">>) :
        lines \in UNION {[1..n -> LinePool] : n \in 1..MaxLines}}

\* a call of _split_into_tweets(content, max_length)
SplitIntoTweets ==
    /\ \E content \in ContentPool, max_length \in TweetLengths :
          pass' = [call |-> "_split_into_tweets", content |-> content,
                   max_length |-> max_length,
                   tweets |-> _split_into_tweets(content, max_length)]
    /\ UNCHANGED <<sheet, archive, archiveExists, pc, cfg, csv, results, events,
                   upl, faults, rl, xp, env, handler, runner>>

NextSplit == SplitIntoTweets

SpecSplit == Init /\ [][NextSplit]_vars

(***************************************************************************)
(* SheetAnalyzer.ensure_columns_exist called on its own, in either         *)
(* generation mode, on the tabs a pass can start from.                     *)
(***************************************************************************)
EnsureColumnsExist ==
    /\ \E generation_mode \in {"summary", "keywords"},
          fail \in {"none", "ece_get", "ece_clear", "ece_append"} :
       \E r \in {ensure_columns_exist(sheet, generation_mode, fail)} :
          /\ sheet' = r.sheet
          /\ pass' = [call |-> "ensure_columns_exist",
                      generation_mode |-> generation_mode, fail |-> fail,
                      before |-> sheet, after |-> r.sheet, raised |-> r.raised,
                      cols |-> r.cols]
    /\ UNCHANGED <<archive, archiveExists, pc, cfg, csv, results, events, upl,
                   faults, rl, xp, env, handler, runner>>

NextColumns == EnsureColumnsExist

SpecColumns == InitPasses /\ [][NextColumns]_vars

(***************************************************************************)
(* The retry loop of SequentialProcessor.run_gemini_analysis, one pass of   *)
(* the loop at a time.  Each pass has its own failing spreadsheet call;     *)
(* `outcomes` lists how the passes ended and `sleeps` the seconds slept.    *)
(***************************************************************************)
\* a back-off that waits the same time before every retry
wait_time_flat(retry_count) == 30

\* wait_time = 30 * (2 ** (retry_count - 1))
wait_time(retry_count) == 30 * (2 ^ (retry_count - 1))

\* the spreadsheet calls of one pass that may raise
AttemptFails ==
    {"none", "ece_get", "ece_get_429", "ece_clear", "ece_append", "aar_get"}

\* the results dictionary and the locals when the function is entered
AnalysisCall(gemini_analyzer) ==
    [call |-> "run_gemini_analysis", at |-> "entered",
     gemini_analyzer |-> gemini_analyzer, retry_count |-> 0,
     outcomes |-> <<>>, sleeps |-> <<>>, success |-> FALSE,
     posts_analyzed |-> 0, projects_found |-> 0, errors |-> <<>>]

\* the except branch for a rate-limit error
RateLimited(p) ==
    IF p.retry_count + 1 < max_retries
    THEN [p EXCEPT !.retry_count = @ + 1,
                   !.outcomes = Append(@, "rate limit"),
                   !.sleeps = Append(@, wait_time(p.retry_count + 1))]
    ELSE [p EXCEPT !.retry_count = @ + 1,
                   !.outcomes = Append(@, "rate limit"),
                   !.errors = Append(@, "Rate limited after multiple retries")]

\* the except branch for any other error: no retry
NotRetried(p, error_msg) ==
    [p EXCEPT !.outcomes = Append(@, "error"),
              !.errors = Append(@, error_msg), !.at = "left"]

\* the try block after ensure_columns_exist returned and was unpacked
Analyzed(p, aar) ==
    [p EXCEPT !.outcomes = Append(@, "success"), !.success = TRUE,
              !.posts_analyzed = Len(aar.all_processed_rows),
              !.projects_found = Len(aar.summaries), !.at = "left"]

\* one pass of the while loop
AttemptPass(p, ece, scripts, fail) ==
    IF ece.raised /\ IsRateLimitError(ErrorOf(fail)) THEN RateLimited(p)
    ELSE IF ece.raised THEN NotRetried(p, ErrorOf(fail))
    ELSE IF Unpack(ece.cols, 3).raised
    THEN NotRetried(p, "too many values to unpack (expected 3)")
    ELSE Analyzed(p, analyze_all_rows(ece.sheet, scripts, fail))

\* the tab after one pass
SheetAfterPass(ece, scripts, fail) ==
    IF ece.raised \/ Unpack(ece.cols, 3).raised THEN ece.sheet
    ELSE WriteAnalysis(analyze_all_rows(ece.sheet, scripts, fail), ece, -1,
                       "summary", fail)

InitRetry ==
    /\ sheet \in {process_csv_to_sheets(CsvRows(posts), <<>>, FALSE, "none").sheet :
                     posts \in Batches}
    /\ archive = <<>>
    /\ archiveExists = FALSE
    /\ pc = "idle"
    /\ cfg = NoConfig
    /\ csv = <<>>
    /\ results = NoResults
    /\ events = <<>>
    /\ upl = NoUpload
    /\ faults = 0
    /\ pass = NoPass
    /\ rl = NoLimiter
    /\ xp = NoLimiter
    /\ env = NoEnv
    /\ handler = NoHandler
    /\ runner = NoRunner

\* run_gemini_analysis is called: without an analyzer it returns at once
EnterGeminiAnalysis ==
    /\ pass.call = "none"
    /\ \E gemini_analyzer \in BOOLEAN :
          pass' = IF gemini_analyzer
                  THEN [AnalysisCall(TRUE) EXCEPT !.at = "loop"]
                  ELSE [AnalysisCall(FALSE) EXCEPT !.at = "returned",
                                                   !.success = TRUE]
    /\ UNCHANGED <<sheet, archive, archiveExists, pc, cfg, csv, results, events,
                   upl, faults, rl, xp, env, handler, runner>>

\* while retry_count < max_retries: one pass, with the sleep before `continue`
RetryPass ==
    /\ pass.call = "run_gemini_analysis" /\ pass.at = "loop"
    /\ pass.retry_count < max_retries
    /\ \E fail \in AttemptFails :
         \E ece \in {ensure_columns_exist(sheet, "summary", fail)} :
            \E scripts \in ScriptAssignments :
               /\ pass' = AttemptPass(pass, ece, scripts, fail)
               /\ sheet' = SheetAfterPass(ece, scripts, fail)
    /\ UNCHANGED <<archive, archiveExists, pc, cfg, csv, results, events,
                   upl, faults, rl, xp, env, handler, runner>>

\* the loop is left, by break or by its condition; partial analysis counts
\* as success and the results are returned
ReturnResults ==
    /\ pass.call = "run_gemini_analysis"
    /\ \/ pass.at = "left"
       \/ pass.at = "loop" /\ pass.retry_count >= max_retries
    /\ pass' = [pass EXCEPT !.at = "returned",
                            !.success = pass.success \/ pass.posts_analyzed > 0]
    /\ UNCHANGED <<sheet, archive, archiveExists, pc, cfg, csv, results, events,
                   upl, faults, rl, xp, env, handler, runner>>

NextRetry ==
    \/ EnterGeminiAnalysis
    \/ RetryPass
    \/ ReturnResults

\* the function runs on once it was called: every sleep ends
SpecRetry == InitRetry /\ [][NextRetry]_vars /\ WF_vars(NextRetry)

(***************************************************************************)
(* Properties.  They read the tabs by header name and 1-based position,    *)
(* independently of the operators above.                                   *)
(***************************************************************************)
\* 1-based position of the first header equal to `name`, 0 if there is none
ColumnNamed(tab, name) ==
    IF tab = <<>> \/ ~(\E j \in 1..Len(tab[1]) : tab[1][j] = name) THEN 0
    ELSE CHOOSE j \in 1..Len(tab[1]) :
            /\ tab[1][j] = name
            /\ \A k \in 1..(j - 1) : tab[1][k] # name

\* the cell of a row at a 1-based position, blank where the row has none
ValueAt(row, col) == IF col >= 1 /\ col <= Len(row) THEN row[col] ELSE ""

\* the cell of row i of a tab under the header `name`
Under(tab, i, name) == ValueAt(tab[i], ColumnNamed(tab, name))

Occurrences(seq, x) == Cardinality({i \in 1..Len(seq) : seq[i] = x})

IsProcessedRow(tab, i) == Under(tab, i, "AI processed") = "TRUE"

\* the data rows of the working tab that are processed / not processed,
\* as row numbers in sheet order
ProcessedRowNumbers(tab) ==
    SelectSeq([i \in 1..Len(tab) |-> i], LAMBDA i : i >= 2 /\ IsProcessedRow(tab, i))

RemainingRowNumbers(tab) ==
    SelectSeq([i \in 1..Len(tab) |-> i], LAMBDA i : i >= 2 /\ ~IsProcessedRow(tab, i))

ProcessingColumns ==
    {"AI Summary", "AI processed", "Daily Post Draft", "Publication receipt"}

TabWidth(tab) ==
    IF tab = <<>> THEN 0
    ELSE CHOOSE w \in {Len(tab[i]) : i \in 1..Len(tab)} :
            \A i \in 1..Len(tab) : Len(tab[i]) <= w

\* the archive step moved the processed rows of `sheet` below the rows of
\* `archive` and left the other rows with blank processing columns
ProcessedRowsMoved ==
    LET P == ProcessedRowNumbers(sheet)
        R == RemainingRowNumbers(sheet)
        base == IF Len(archive) = 0 THEN 1 ELSE Len(archive)
    IN  /\ Len(archive') = base + Len(P)
        /\ \A n \in 1..Len(P) :
              /\ Under(archive', base + n, "Post Link") = Under(sheet, P[n], "Post Link")
              /\ Under(archive', base + n, "Content") = Under(sheet, P[n], "Content")
              /\ Under(archive', base + n, "Author") = Under(sheet, P[n], "Author")
        /\ Len(sheet') = 1 + Len(R)
        /\ \A j \in 1..TabWidth(sheet) :
              ValueAt(sheet'[1], j) = ValueAt(sheet[1], j)
        /\ \A n \in 1..Len(R) : \A j \in 1..TabWidth(sheet) :
              ValueAt(sheet'[1 + n], j) =
                  IF ValueAt(sheet[1], j) \in ProcessingColumns THEN ""
                  ELSE ValueAt(sheet[R[n]], j)
        /\ results'.archiving = "success"
        /\ results'.posts_archived = Len(P)

\* C1: when the working tab has an 'AI processed' column with k >= 1 rows
\* marked TRUE and no spreadsheet call of the archive workflow fails, the
\* workflow appends k rows to the archive (one per processed row, in sheet
\* order), keeps the header and the other rows in order with their four
\* processing columns blank, and reports success with posts_archived = k.
ArchiveWorkflowMovesProcessedRows ==
    [][(/\ pc = "archiving" /\ pc' = "done"
        /\ faults' = faults
        /\ ColumnNamed(sheet, "AI processed") # 0
        /\ ProcessedRowNumbers(sheet) # <<>>)
       => ProcessedRowsMoved]_vars

ArchivedSomeAndKeptSome ==
    /\ pc = "done" /\ faults = 0
    /\ results.archiving = "success"
    /\ results.posts_archived >= 1
    /\ Len(sheet) >= 2
    /\ Len(archive) = 1 + results.posts_archived

PhaseRank(phase) ==
    CASE phase = "collection" -> 1
      [] phase = "upload" -> 2
      [] phase = "analysis" -> 3
      [] phase = "publishing" -> 4
      [] phase = "archiving" -> 5

\* C2: within one run_complete_pipeline execution the phases run one after
\* the other in the order collection, upload, analysis, publishing,
\* archiving: the next phase to run is always later than every phase that ran.
PipelinePhasesInOrder ==
    results.kind = "pipeline" =>
        /\ \A i \in 1..Len(events) : \A j \in 1..Len(events) :
              i < j => PhaseRank(events[i]) < PhaseRank(events[j])
        /\ pc \notin {"idle", "done"} =>
              \A i \in 1..Len(events) : PhaseRank(events[i]) < PhaseRank(pc)

PipelineRanAllPhases ==
    /\ pc = "done" /\ results.kind = "pipeline"
    /\ events = <<"collection", "upload", "analysis", "publishing", "archiving">>

\* C3: every run_complete_pipeline execution runs analysis, publishing and
\* archiving after collection, whether or not collection found posts.
PipelineAlwaysRunsLaterPhases ==
    (pc = "done" /\ results.kind = "pipeline") =>
        /\ Occurrences(events, "analysis") = 1
        /\ Occurrences(events, "publishing") = 1
        /\ Occurrences(events, "archiving") = 1

\* C4: run_complete_workflow runs the archive workflow exactly once, as its
\* last step, whatever analysis and publishing did; it attempts analysis
\* only with an analyzer and publishing only with a publisher.
WorkflowArchivesOnceAtEnd ==
    results.kind = "workflow" =>
        /\ Occurrences(events, "archiving") = (IF pc = "done" THEN 1 ELSE 0)
        /\ pc = "done" => events[Len(events)] = "archiving"
        /\ Occurrences(events, "analysis") = (IF cfg.gemini THEN 1 ELSE 0)
        /\ Occurrences(events, "publishing") <= (IF cfg.publisher THEN 1 ELSE 0)
        /\ pc \in {"archiving", "done"} =>
              Occurrences(events, "publishing") = (IF cfg.publisher THEN 1 ELSE 0)

WorkflowArchivedAfterFailures ==
    /\ pc = "done" /\ results.kind = "workflow"
    /\ results.analysis = "failure"
    /\ results.publishing = "failure"
    /\ events = <<"analysis", "publishing", "archiving">>

WorkflowArchivedUnconfigured ==
    /\ pc = "done" /\ results.kind = "workflow"
    /\ ~cfg.gemini /\ ~cfg.publisher
    /\ events = <<"archiving">>

\* C5: the overall success of a run that reached its archive step is true
\* exactly when analysis succeeded or was skipped, publishing succeeded or
\* was skipped, and archiving succeeded.
OverallSuccessIsConjunction ==
    (pc = "done" /\ results.archiving # "none") =>
        (results.overall_success <=>
            /\ results.analysis \in {"success", "none"}
            /\ results.publishing \in {"success", "none"}
            /\ results.archiving = "success")

\* the same for run_complete_workflow alone
WorkflowOverallIsConjunction ==
    (pc = "done" /\ results.kind = "workflow") =>
        (results.overall_success <=>
            /\ results.analysis \in {"success", "none"}
            /\ results.publishing \in {"success", "none"}
            /\ results.archiving = "success")

\* C6: every data row of the working tab marked 'AI processed' = TRUE has a
\* non-empty 'AI Summary' cell, whatever the AI service replied.
ProcessedRowsHaveSummary ==
    \A i \in 2..Len(sheet) :
        IsProcessedRow(sheet, i) => Under(sheet, i, "AI Summary") # ""

\* C7: when a run has finished, the 'Daily Post Draft' column of the working
\* tab is non-empty in at most one data row, and only in row 2.
DraftOnlyInFirstDataRow ==
    pc = "done" =>
        \A i \in 2..Len(sheet) :
            Under(sheet, i, "Daily Post Draft") # "" => i = 2

\* C8: a step never changes or removes a data row that is in the archive
\* tab: new rows go strictly below the rows that are there.
ArchiveIsAppendOnly ==
    [][\A i \in 2..Len(archive) :
          /\ i <= Len(archive')
          /\ archive'[i] = archive[i]]_vars

ArchiveGrewBelowEarlierRows ==
    /\ pc = "done"
    /\ results.posts_archived = 1
    /\ Len(archive) = 3

\* C9: with duplicate skipping always enabled, no two rows of the archive
\* tab carry the same non-empty post link.
ArchiveLinksUnique ==
    \A i \in 2..Len(archive) : \A j \in 2..Len(archive) :
        (/\ i # j
         /\ Under(archive, i, "Post Link") # "")
        => Under(archive, i, "Post Link") # Under(archive, j, "Post Link")

\* the post links in the 'Post Link' column of the working tab
LinksInSheet ==
    IF ColumnNamed(sheet, "Post Link") = 0 THEN {}
    ELSE {Under(sheet, i, "Post Link") : i \in 2..Len(sheet)}

\* C10: when duplicate skipping is enabled and the working tab was read, the
\* duplicate check returns exactly the incoming posts whose link is not in
\* the tab's Post Link column, in incoming order, and the upload reports
\* incoming minus returned as its duplicates.
FilterReturnsUnseenPosts ==
    [][(/\ pc = "upload" /\ pc' = "analysis"
        /\ upl'.skip_duplicates
        /\ upl'.sheet_read)
       => /\ upl'.new_posts = SelectSeq(csv, LAMBDA post : post[4] \notin LinksInSheet)
          /\ upl'.duplicates = Len(csv) - Len(upl'.new_posts)]_vars

FilterDroppedOneOfTwo ==
    /\ pc = "analysis"
    /\ upl.skip_duplicates /\ upl.sheet_read
    /\ upl.duplicates = 1
    /\ Len(upl.new_posts) = 1

\* the rows of a tab that analyze_all_rows has to analyze: not processed, no
\* summary yet, with a content and a post link
RowsToAnalyze(tab) ==
    {i \in 2..Len(tab) :
        /\ Under(tab, i, "AI processed") # "TRUE"
        /\ Under(tab, i, "AI Summary") = ""
        /\ Under(tab, i, "Content") # ""
        /\ Under(tab, i, "Post Link") # ""}

\* an AI call made for the post of row i fails with a quota error
QuotaErrorAt(tab, scripts, i) ==
    \E prompt \in {"detect", "extract", "generate"} :
        ReplyFor(scripts, Under(tab, i, "Content"))[prompt] = Raised("RATE_LIMITED")

\* every AI call made for the rows of the tab returns a response
AllRepliesOk(tab, scripts) ==
    \A i \in 2..Len(tab) : \A prompt \in {"detect", "extract", "generate"} :
        ~ReplyFor(scripts, Under(tab, i, "Content"))[prompt].raised

\* C11: when an AI call fails with a quota error at a row, analyze_all_rows
\* stops there: no later row is in the processed list it returns
QuotaErrorStopsThePass ==
    (pass.call = "analyze_all_rows" /\ pass.fail = "none") =>
        \A i \in RowsToAnalyze(pass.before) :
            QuotaErrorAt(pass.before, pass.scripts, i) =>
                \A k \in 1..Len(pass.out.all_processed_rows) :
                    pass.out.all_processed_rows[k][1] <= i

\* C14: with an analyzer and every spreadsheet and AI call succeeding, the
\* analysis phase reports success, counts the rows it had to analyze and
\* leaves them marked "AI processed" = TRUE
AnalysisPhaseMarksRows ==
    (/\ pass.call \in {"run_gemini_analysis", "run_analysis"}
     /\ pass.fail = "none"
     /\ AllRepliesOk(pass.before, pass.scripts)) =>
        /\ pass.out.success
        /\ pass.out.posts_analyzed = Cardinality(RowsToAnalyze(pass.before))
        /\ \A i \in RowsToAnalyze(pass.before) :
              Under(pass.out.sheet, i, "AI processed") = "TRUE"

\* C12: a request that finds the daily count at the daily ceiling raises
\* "Daily rate limit reached" without sleeping, also when the per-minute
\* ceiling is reached, so that daily_requests never exceeds daily_limit
DailyCeilingStopsRequests ==
    rl.made =>
        /\ rl.daily_requests <= rl.daily_limit
        /\ (rl.last.op = "_make_request" /\ rl.last.found.daily_reached) =>
              (rl.last.outcome = "Daily rate limit reached" /\ ~rl.last.slept)

\* C13: can_make_request returns false when the daily count is at the
\* ceiling, false when 14 requests were made inside the current minute
\* window, and true otherwise; the first call on a later date resets the
\* daily count
CanMakeRequestFollowsCeilings ==
    (rl.made /\ rl.last.op = "can_make_request") =>
        /\ rl.last.result =
              (/\ ~rl.last.found.daily_reached
               /\ ~(rl.last.found.minute_requests >= minute_limit
                    /\ rl.last.found.in_window))
        /\ rl.last.found.date_ahead =>
              (rl.daily_requests = 0 /\ ~rl.date_ahead)

\* the four credentials are set to something that is not a placeholder
CredentialsPresent(e) ==
    \A v \in {e.X_API_KEY, e.X_API_SECRET, e.X_ACCESS_TOKEN,
              e.X_ACCESS_TOKEN_SECRET} : v = <<"k3y">>

\* C18: validate_x_api_config succeeds without a check only when the
\* publisher type is not the direct API; with the type "twitter" or "x" it
\* succeeds exactly when the four credentials are present and none is a
\* placeholder
XConfigValidWhenCredentialsPresent ==
    (env.loaded /\ env.log # "none"
     /\ Lower(env.PUBLISHER_TYPE) \in {"twitter", "x"}) =>
        /\ validate_x_api_config(env) = CredentialsPresent(env)
        /\ (env.log = "X/Twitter publishing enabled") = CredentialsPresent(env)

\* C19: publish submits nothing while can_publish() is false and returns a
\* failed result, so that the recorded publishes are at most 5 in any 15
\* minutes and at most 50 on one calendar day
PublishesStayUnderCeilings ==
    xp.made =>
        /\ (xp.last.op = "publish" /\ xp.last.checked /\ ~xp.last.allowed) =>
              (~xp.last.submitted /\ ~xp.last.success
               /\ xp.last.error_msg = "Rate limited")
        /\ Cardinality({k \in 1..Len(xp.window_posts) :
                           xp.window_posts[k] < window_steps}) <= posts_per_15min
        /\ xp.daily_posts <= posts_per_day
        /\ xp.today <= posts_per_day

SignalArrives == runner'.shutdown /\ ~runner.shutdown

\* a cycle that ran to its end: it found no posts, or it ran the five phases
CompleteCycle(phases) == phases = <<"collection">> \/ phases = pipeline_phases

\* C15: a signal received while a cycle is running only sets the shutdown
\* flag; the cycle runs its remaining phases, and afterwards the loop of
\* start() terminates
SignalLetsCycleFinish ==
    /\ [][SignalArrives =>
             /\ UNCHANGED <<sheet, archive, archiveExists, pc, cfg, csv,
                            results, events, upl, faults>>
             /\ runner'.at = runner.at /\ runner'.status = runner.status]_vars
    /\ [](runner.mode = "daemon" /\ runner.at = "exited" /\ runner.shutdown =>
             /\ pc = "idle"
             /\ runner.caught = "cycle" => CompleteCycle(runner.ran))
    /\ (runner.mode = "daemon" /\ runner.shutdown /\ runner.at \in {"sleep", "loop"})
           ~> (runner.at = "exited")

\* the daemon stopped after a signal that arrived in the middle of a cycle
\* with posts
StoppedAfterInterruptedCycle ==
    /\ runner.mode = "daemon" /\ runner.at = "exited"
    /\ runner.caught = "cycle" /\ runner.ran = pipeline_phases

\* C16: a cycle that reports failure, or a run_pending that raises, does not
\* end the loop of start(): without a signal the daemon keeps polling and
\* the next scheduled cycle is run
FailedCycleKeepsDaemonRunning ==
    /\ [](runner.mode = "daemon" /\ runner.at = "exited" =>
             runner.shutdown \/ runner.last \in {"invalid", "not initialized"})
    /\ (runner.mode = "daemon" /\ runner.last \in {"failure", "raised"}
        /\ runner.at \in {"sleep", "loop"})
           ~> (runner.shutdown \/ runner.at = "job")

\* the daemon starts the next cycle after a cycle that failed
NextCycleAfterFailure ==
    /\ runner.mode = "daemon" /\ ~runner.shutdown
    /\ runner.last = "failure" /\ runner.at = "job"

LeadingErrors(l) ==
    Max({k \in 0..Len(l.script) :
            \A i \in 1..k : l.ready /\ l.script[i].kind = "HTTPException"})

\* C22: after j <= n platform errors and a success, j+1 attempts were made
\* and the result of the successful attempt is returned; after n+1 platform
\* errors the error is raised with n+1 attempts made; any other error is
\* raised by the attempt it happens in; the sleeps are 1, 2, 4, ...
RetryAttemptsAndBackoff ==
    handler.last.op = "fetch_twitter_posts_with_retry" =>
        \E l \in {handler.last} : \E j \in {LeadingErrors(handler.last)} :
            /\ (j <= l.max_retries /\ l.ready /\ l.script[j + 1].kind = "messages") =>
                  /\ l.attempts = j + 1
                  /\ l.outcome = "returned"
                  /\ l.posts = filter_twitter_messages(l.script[j + 1].messages)
            /\ j = l.max_retries + 1 =>
                  /\ l.attempts = l.max_retries + 1
                  /\ l.outcome = "HTTPException"
            /\ (j <= l.max_retries
                /\ ~(l.ready /\ l.script[j + 1].kind = "messages")) =>
                  /\ l.attempts = j + 1
                  /\ l.outcome \in {"RuntimeError", "ValueError"}
            /\ l.sleeps = [i \in 1..(l.attempts - 1) |-> 2 ^ (i - 1)]

\* two platform errors, then the history with one post, with max_retries=3
RetriedTwiceThenFetched ==
    /\ handler.last.op = "fetch_twitter_posts_with_retry"
    /\ handler.last.max_retries = 3
    /\ handler.last.attempts = 3 /\ handler.last.sleeps = <<1, 2>>
    /\ handler.last.outcome = "returned" /\ handler.last.posts = <<"tweet">>

\* C30: connect() returns at the first test of the loop that finds the ready
\* flag set, fails with the timeout error after 30 polls that did not find
\* it, never returns normally with the flag unset, and always ends
ConnectTerminates ==
    /\ [][handler.at = "connect" /\ handler'.ready = handler.ready =>
             IF handler.ready
             THEN /\ handler'.at = "idle"
                  /\ handler'.last = [op |-> "connect", outcome |-> "returned",
                                      polls |-> handler.retry_count]
             ELSE IF handler'.at = "idle"
             THEN /\ handler.retry_count = connect_polls
                  /\ handler'.last = [op |-> "connect", outcome |-> "TimeoutError",
                                      polls |-> connect_polls]
             ELSE /\ handler.retry_count < connect_polls
                  /\ handler'.retry_count = handler.retry_count + 1]_vars
    /\ [](handler.at \in {"idle", "connect"} => handler.retry_count <= connect_polls)
    /\ [](handler.last.op = "connect" /\ handler.last.outcome = "returned"
             => handler.ready)
    /\ (handler.at = "connect") ~> (handler.at = "idle")

\* connect() failed with the timeout error after its 30 polls
ConnectTimedOut ==
    /\ handler.at = "idle" /\ ~handler.ready
    /\ handler.last = [op |-> "connect", outcome |-> "TimeoutError",
                       polls |-> connect_polls]

\* the attempts at the start of the script that fail with HTTP 429
Leading429(script) ==
    Max({k \in 0..Len(script) : \A i \in 1..k : script[i] = "HttpError 429"})

\* C23: _execute_with_retry retries only after HTTP 429, makes at most 3
\* attempts, sleeps 1 second before the second and 2 seconds before the
\* third, returns the first successful response, fails after a third 429,
\* and raises any other error in the attempt it happens in, without a sleep
RetriesOnlyOnRateLimit ==
    pass.call = "_execute_with_retry" =>
        \E j \in {Leading429(pass.script)} :
            /\ pass.attempts <= MAX_RETRIES
            /\ pass.attempts = IF j < MAX_RETRIES THEN j + 1 ELSE MAX_RETRIES
            /\ pass.sleeps = SubSeq(<<1, 2>>, 1, pass.attempts - 1)
            /\ pass.outcome = IF pass.script[pass.attempts] = "response"
                              THEN "returned"
                              ELSE pass.script[pass.attempts]
            /\ pass.outcome = "returned" => pass.response = j + 1
            /\ pass.script[1] \in {"HttpError 500", "Exception"} =>
                  (pass.attempts = 1 /\ pass.sleeps = <<>>
                   /\ pass.outcome = pass.script[1])

\* two 429 replies, then the response of the third attempt
ResponseOnThirdAttempt ==
    /\ pass.call = "_execute_with_retry"
    /\ pass.script = <<"HttpError 429", "HttpError 429", "response">>
    /\ pass.attempts = 3 /\ pass.sleeps = <<1, 2>>
    /\ pass.outcome = "returned" /\ pass.response = 3

\* C24: after clear_sheet(tab, preserve_headers=true) returned on a tab
\* with a non-empty first row, row 1 is what it was and there is no other row
ClearSheetKeepsHeaders ==
    (/\ pass.call = "clear_sheet" /\ pass.preserve_headers /\ ~pass.raised
     /\ pass.before # <<>> /\ pass.before[1] # <<>>) =>
        /\ sheet # <<>> /\ sheet[1] = pass.before[1]
        /\ \A i \in 2..Len(sheet) : sheet[i] = <<>>
        /\ Len(sheet) = 1

\* a tab with a header whose first cell is empty and a data row was cleared
ClearedBelowHeaders ==
    /\ pass.call = "clear_sheet" /\ pass.preserve_headers /\ ~pass.raised
    /\ Len(pass.before) = 2 /\ pass.before[1] = <<"", "B">>
    /\ sheet = <<<<"", "B">>>>

\* C27: a call of can_make_request made 60 seconds or more after the minute
\* window started leaves minute_requests at 0, however long the time that
\* has passed
MinuteCounterResetsAfterSixtySeconds ==
    (rl.made /\ rl.last.op = "can_make_request" /\ ~rl.last.found.in_window) =>
        rl.minute_requests = 0

\* C26: analyze_single_row raises to its caller when one of the AI calls it
\* made failed with quota exhaustion
QuotaFailureReachesCaller ==
    (/\ pass.call = "analyze_single_row"
     /\ \E prompt \in pass.made : pass.script[prompt] = Raised("RATE_LIMITED")) =>
        pass.out.raised

\* the content is empty or shorter than 10 characters after trimming
TooShort(content) == content = "" \/ Len(Strip(content)) < 10

\* C28 (as stated): is_new_project returns false without an AI call and
\* without a change of the limiter on short content; otherwise it issues
\* exactly one classification call and returns true exactly when the
\* trimmed upper-cased response is YES
DetectionIssuesOneCall ==
    pass.call = "is_new_project" =>
        IF TooShort(pass.content)
        THEN ~pass.result /\ pass.calls = 0 /\ pass.after = pass.before
        ELSE /\ pass.calls = 1
             /\ pass.result = (/\ ~pass.generated.raised
                               /\ Upper(Strip(pass.generated.text)) = "YES")

\* the limiter refuses a request: the daily count is at the daily limit
\* and the minute count is below its ceiling, after the resets
LimiterRefuses(r) ==
    /\ AfterResets(r).daily_requests >= r.daily_limit
    /\ AfterResets(r).minute_requests < minute_limit

\* C28: is_new_project returns false without an AI call and without a
\* change of the limiter on short content; otherwise it issues one
\* classification call unless the limiter refuses the request, and returns
\* true exactly when a call was issued and its trimmed upper-cased response
\* is YES
DetectionIssuesAtMostOneCall ==
    pass.call = "is_new_project" =>
        IF TooShort(pass.content)
        THEN ~pass.result /\ pass.calls = 0 /\ pass.after = pass.before
        ELSE /\ pass.calls = IF LimiterRefuses(pass.before) THEN 0 ELSE 1
             /\ pass.result = (/\ pass.calls = 1
                               /\ ~pass.generated.raised
                               /\ Upper(Strip(pass.generated.text)) = "YES")

\* a detection with a padded lower-case yes as the response
DetectedFromPaddedYes ==
    /\ pass.call = "is_new_project" /\ pass.content = "Launch of protocol A"
    /\ pass.generated = Ok(" yes ") /\ pass.calls = 1 /\ pass.result

\* the dates of the summaries of this part, and their order in time
DraftDates == {"2024-01-01", "2024-01-02"}

Earlier(d, e) == d = "2024-01-01" /\ e = "2024-01-02"

\* the positions of the header lines of a date in the lines of a draft
HeaderPositions(lines, date) ==
    {i \in 1..Len(lines) : lines[i] = "New/Trending Projects on " \o date \o ":"}

\* the positions of all header lines
AllHeaders(lines) == UNION {HeaderPositions(lines, date) : date \in DraftDates}

\* the positions of the project lines beneath the header at position h: the
\* lines that are not blank, up to the next header or the end of the draft
Beneath(lines, h) ==
    {i \in (h + 1)..Len(lines) :
        /\ lines[i] # ""
        /\ \A k \in AllHeaders(lines) : ~(h < k /\ k <= i)}

\* the positions in the list of the summaries of a date
SummariesOf(summaries, date) ==
    {i \in 1..Len(summaries) : summaries[i].date = date}

\* the project line of a summary holds the bare handle
HandleLine(summary) ==
    "@" \o summary.username \o ": " \o summary.ai_summary \o "\n"

EmptyDraft ==
    /\ pass.call = "create_daily_draft"
    /\ pass.summaries = <<>>
    /\ pass.draft = "No new projects found today."

\* the numbers 1..n that are in S, in ascending order
Ascending(S, n) == SelectSeq([i \in 1..n |-> i], LAMBDA i : i \in S)

\* the sheet rows of the processed list a pass returned, in the order of
\* their analysis
AnalyzedRows(out) ==
    [k \in 1..Len(out.all_processed_rows) |-> out.all_processed_rows[k][1]]

SecondRowAnalyzedAlone ==
    /\ pass.call = "analyze_all_rows" /\ pass.fail = "none"
    /\ Len(pass.before) = 3
    /\ Under(pass.before, 2, "AI processed") = "TRUE"
    /\ AnalyzedRows(pass.out) = <<3>>

WaitFollowsBindingLimit ==
    (xp.made /\ xp.last.op = "wait_if_needed") =>
        /\ xp.last.can_publish =>
              xp.last.wait = [until |-> "now", steps |-> 0]
        /\ (~xp.last.daily_reached /\ xp.last.live >= xp.window_limit) =>
              xp.last.wait.until = "window"
        /\ (xp.last.daily_reached /\ xp.last.live < xp.window_limit) =>
              xp.last.wait.until = "midnight"

\* C32: the collection CSV is in data/processed only when the upload phase
\* of the cycle reported success
CsvMovedOnlyAfterUpload ==
    (results.kind = "pipeline" /\ results.csv_file = "data/processed") =>
        results.sheets_upload = "success"

\* the rows of a list of chunks, in order
RECURSIVE Flatten(_)
Flatten(chunks) ==
    IF chunks = <<>> THEN <<>> ELSE chunks[1].batch \o Flatten(Tail(chunks))

AppendCalls(trace) == SelectSeq(trace, LAMBDA e : e.op = "append_data")

\* C33: a batch_append_data(rows, batch_size = b) in which no append raises
\* makes ceil(len(rows) / b) append calls, each with at most b rows, whose
\* chunks in call order make up rows; it sleeps 0.5 seconds between two
\* consecutive append calls and not after the last
BatchAppendChunks ==
    (pass.call = "batch_append_data" /\ ~pass.raised) =>
        /\ Len(AppendCalls(pass.trace)) * pass.batch_size >= Len(pass.data)
        /\ (Len(AppendCalls(pass.trace)) - 1) * pass.batch_size < Len(pass.data)
        /\ \A k \in 1..Len(AppendCalls(pass.trace)) :
              Len(AppendCalls(pass.trace)[k].batch) \in 1..pass.batch_size
        /\ Flatten(AppendCalls(pass.trace)) = pass.data
        /\ \A k \in 1..Len(pass.trace) :
              IF k % 2 = 1 THEN pass.trace[k].op = "append_data"
              ELSE /\ pass.trace[k].op = "sleep"
                   /\ pass.trace[k].ms = 500
                   /\ k < Len(pass.trace)

\* four rows appended in chunks of three: two calls with one sleep between
FourRowsInTwoChunks ==
    /\ pass.call = "batch_append_data" /\ ~pass.raised
    /\ Len(pass.data) = 4 /\ pass.batch_size = 3
    /\ Len(pass.trace) = 3
    /\ pass.trace[2].op = "sleep"
    /\ Len(pass.trace[3].batch) = 1

\* s begins with p
StartsWith(s, p) == Len(s) >= Len(p) /\ SubSeq(s, 1, Len(p)) = p

\* C34: every element of the list _split_into_tweets returns is at most
\* max_length characters long, and when the list has more than one element,
\* element i of N starts with the marker '(i/N) '
TweetsFitAndAreNumbered ==
    pass.call = "_split_into_tweets" =>
        \A i \in 1..Len(pass.tweets) :
            /\ Len(pass.tweets[i]) <= pass.max_length
            /\ Len(pass.tweets) > 1 =>
                  StartsWith(pass.tweets[i],
                             <<"(", Digit(i), "/", Digit(Len(pass.tweets)), ")", " ">>)

\* C35: after an ensure_columns_exist that did not raise, every data row
\* has under every header that existed before the call the cell it had
\* under that header before the call
ColumnsKeepTheirData ==
    (pass.call = "ensure_columns_exist" /\ ~pass.raised /\ pass.before # <<>>) =>
        \A i \in 2..Len(pass.before) : \A j \in 1..Len(pass.before[1]) :
            Under(pass.after, i, pass.before[1][j]) =
                Under(pass.before, i, pass.before[1][j])

\* C36: when one spreadsheet call of the clear-and-rewrite of
\* ensure_columns_exist fails, every data row the working tab held before
\* the call is still in the tab afterwards
DataRowsSurviveFailedRewrite ==
    (pass.call = "ensure_columns_exist" /\ pass.fail # "none") =>
        \A i \in 2..Len(pass.before) :
            \E k \in 2..Len(pass.after) : pass.after[k] = pass.before[i]

\* the first data row of a tab with a daily draft, 0 if there is none
DraftRow(tab) ==
    IF \E i \in 2..Len(tab) : Under(tab, i, "Daily Post Draft") # ""
    THEN Min({i \in 2..Len(tab) : Under(tab, i, "Daily Post Draft") # ""})
    ELSE 0

\* the draft of the tab carries the receipt of a publish
DraftHasReceipt(tab) ==
    /\ DraftRow(tab) # 0
    /\ Under(tab, DraftRow(tab), "Publication receipt") # ""

\* C37: a publishing phase never publishes a draft that carries the receipt
\* of an earlier cycle's publish
DraftPublishedOnce ==
    [][(pc = "publishing" /\ results.kind = "pipeline" /\ results'.published) =>
          ~DraftHasReceipt(sheet)]_vars


\* the rows of the Archives tab that the archive step of this cycle wrote
ArchivedNow(after, count) ==
    {after[i] : i \in (ColumnARows(after) - count + 1)..ColumnARows(after)}

\* C38: when the cycle's publish succeeded and its archive step archives rows,
\* every row it archives carries a publication receipt
ArchivedRowsCarryReceipt ==
    [][(/\ pc = "archiving" /\ results.kind = "pipeline"
        /\ results.published
        /\ results'.posts_archived > 0) =>
          \A row \in ArchivedNow(archive', results'.posts_archived) :
              Cell(row, 7) # ""]_vars


\* C39: the loop of start() begins no scheduled job while the shutdown flag
\* is set
NoJobAfterShutdown ==
    [][(runner.mode = "daemon" /\ runner.at = "pending" /\ runner'.at = "job") =>
          ~runner.shutdown]_vars


\* the sleeps of a call whose passes ended as `outcomes`: 30 seconds, then
\* 60 seconds, one after every rate-limit error that another pass follows
SleepsFor(outcomes) ==
    SubSeq(<<30, 60>>, 1,
           Cardinality({i \in 1..Len(outcomes) : i < 3 /\ outcomes[i] = "rate limit"}))

\* C40: run_gemini_analysis terminates and returns its results: it makes at
\* most 3 passes, sleeps 30 and then 60 seconds and only after rate-limit
\* errors, and makes no further pass after an error that is not a
\* rate-limit error
AnalysisRetriesAreBounded ==
    /\ [](pass.call = "run_gemini_analysis" =>
            /\ Len(pass.outcomes) <= 3
            /\ pass.sleeps = SleepsFor(pass.outcomes)
            /\ \A i \in 1..Len(pass.outcomes) :
                  pass.outcomes[i] # "rate limit" => i = Len(pass.outcomes)
            /\ (pass.outcomes # <<>> /\ pass.outcomes[1] = "error") =>
                  Len(pass.outcomes) = 1)
    /\ [][pass.call = "run_gemini_analysis" /\ pass.at \in {"left", "returned"} =>
            pass'.outcomes = pass.outcomes /\ pass'.sleeps = pass.sleeps]_vars
    /\ (pass.call = "run_gemini_analysis")
           ~> (pass.call = "run_gemini_analysis" /\ pass.at = "returned")

\* a call that was rate limited in all three passes and slept twice
GaveUpAfterThreePasses ==
    /\ pass.call = "run_gemini_analysis" /\ pass.at = "returned"
    /\ pass.outcomes = <<"rate limit", "rate limit", "rate limit">>
    /\ pass.sleeps = <<30, 60>>
    /\ pass.errors = <<"Rate limited after multiple retries">>

\* a call whose first pass failed with another error and was not retried
ReturnedAfterOneError ==
    /\ pass.call = "run_gemini_analysis" /\ pass.at = "returned"
    /\ pass.outcomes = <<"error">> /\ pass.sleeps = <<>> /\ ~pass.success

====
